---- MODULE Spec2Model ----
(***************************************************************************)
(* FocusFrame: webcam gaze tracking session (VideoAttentionHeatmap         *)
(* component, src/unnamed/part_003) and its tracker module                 *)
(* (src/FocusFrame/src/heatmap/eyeTracker.js).                             *)
(*                                                                         *)
(* Numbers.  JavaScript doubles are modelled by exact rationals <<n, d>>   *)
(* (d > 0, lowest terms).  Iris coordinates are counted in tenths of the   *)
(* normalised eye-socket unit (an iris sample <<1, -2>> is {x: 0.1,        *)
(* y: -0.2}); the fit is equivariant under this change of unit, so the     *)
(* predictions it produces are the ones of the code.  Times are in ms.     *)
(***************************************************************************)
EXTENDS Integers, Sequences, FiniteSets, TLC

(***************************************************************************)
(* Rational arithmetic                                                     *)
(***************************************************************************)
Abs(n) == IF n < 0 THEN -n ELSE n

RECURSIVE GCD(_, _)
GCD(a, b) == IF b = 0 THEN a ELSE GCD(b, a % b)

Rat(n, d) ==
  LET g == GCD(Abs(n), Abs(d))
      s == IF d < 0 THEN -1 ELSE 1
  IN  <<(s * n) \div g, (s * d) \div g>>

RInt(n) == <<n, 1>>
RZero == <<0, 1>>
RAdd(a, b) ==
  LET g == GCD(a[2], b[2])
  IN  Rat(a[1] * (b[2] \div g) + b[1] * (a[2] \div g), (a[2] \div g) * b[2])
RNeg(a) == <<-a[1], a[2]>>
RSub(a, b) == RAdd(a, RNeg(b))
RMul(a, b) ==
  LET g1 == GCD(Abs(a[1]), b[2])
      g2 == GCD(Abs(b[1]), a[2])
  IN  <<(a[1] \div g1) * (b[1] \div g2), (a[2] \div g2) * (b[2] \div g1)>>
RDiv(a, b) == RMul(a, IF b[1] < 0 THEN <<-b[2], -b[1]>> ELSE <<b[2], b[1]>>)
RAbs(a) == <<Abs(a[1]), a[2]>>
RLt(a, b) == a[1] * b[2] < b[1] * a[2]
RLe(a, b) == a[1] * b[2] <= b[1] * a[2]

\* Math.round: nearest integer, halves towards +infinity
RRound(a) == (a[1] \div a[2]) + (IF 2 * (a[1] % a[2]) >= a[2] THEN 1 ELSE 0)

\* an array with every element evaluated (JavaScript arrays hold values)
Arr(f) == f \o <<>>

\* the sum of s[lo..hi]; exact addition is associative, so the halves may be
\* summed separately
RECURSIVE RSumRange(_, _, _)
RSumRange(s, lo, hi) ==
  IF lo > hi THEN RZero
  ELSE IF lo = hi THEN s[lo]
  ELSE LET m == (lo + hi) \div 2
       IN  RAdd(RSumRange(s, lo, m), RSumRange(s, m + 1, hi))

RSum(s) == LET a == Arr(s) IN RSumRange(a, 1, Len(a))


(***************************************************************************)
(* eyeTracker.js: quadratic calibration                                    *)
(***************************************************************************)
NULL == <<>>
UNDEFINED == "undefined"

\* number of polynomial terms (const N = 6)
NTerms == 6
\* fitCalibration needs at least this many pairs (pairs.length < 7)
MinPairs == 7

\* phi = [ix*ix, iy*iy, ix*iy, ix, iy, 1]
Phi(ix, iy) ==
  <<RMul(ix, ix), RMul(iy, iy), RMul(ix, iy), ix, iy, RInt(1)>>

\* Math.abs(M[col][col]) < 1e-12, on an exact rational n/d:
\* |n| * 10^12 < d, evaluated without leaving 32 bits
IsBelowSingularEps(a) ==
  LET n == Abs(a[1])
  IN  IF n > 2147 THEN FALSE
      ELSE n * 1000000 <= (a[2] - 1) \div 1000000

\* partial pivot: the first row, from col down, holding the largest |M[row][col]|
PivotRow(M, col) ==
  CHOOSE r \in col..NTerms :
    /\ \A q \in col..NTerms : RLe(RAbs(M[q][col]), RAbs(M[r][col]))
    /\ \A q \in col..(r - 1) : RLt(RAbs(M[q][col]), RAbs(M[r][col]))

SwapRows(M, i, j) ==
  Arr([r \in 1..NTerms |-> IF r = i THEN M[j] ELSE IF r = j THEN M[i] ELSE M[r]])

\* an elimination that leaves the right-hand side column as it was
EliminateColOnly(M, col) ==
  Arr([r \in 1..NTerms |->
     IF r <= col THEN M[r]
     ELSE LET f == RDiv(M[r][col], M[col][col])
          IN  Arr([k \in 1..(NTerms + 1) |->
                 IF k < col \/ k > NTerms THEN M[r][k]
                 ELSE RSub(M[r][k], RMul(f, M[col][k]))])])

\* for (row = col+1 ..) { f = M[row][col] / M[col][col]; M[row][k] -= f * M[col][k] }
EliminateCol(M, col) ==
  Arr([r \in 1..NTerms |->
     IF r <= col THEN M[r]
     ELSE LET f == RDiv(M[r][col], M[col][col])
          IN  Arr([k \in 1..(NTerms + 1) |->
                 IF k < col THEN M[r][k]
                 ELSE RSub(M[r][k], RMul(f, M[col][k]))])])

\* forward elimination; NULL as soon as a pivot is below 1e-12
RECURSIVE Forward(_, _)
Forward(M, col) ==
  IF col > NTerms THEN M
  ELSE LET P == SwapRows(M, col, PivotRow(M, col))
       IN  IF IsBelowSingularEps(P[col][col]) THEN NULL
           ELSE Forward(EliminateCol(P, col), col + 1)

\* back substitution, rows N down to 1
RECURSIVE BackSub(_, _, _)
BackSub(M, i, x) ==
  IF i = 0 THEN x
  ELSE LET acc == RSub(M[i][NTerms + 1],
                       RSum([j \in 1..(NTerms - i) |-> RMul(M[i][i + j], x[i + j])]))
           xi  == RDiv(acc, M[i][i])
       IN  BackSub(M, i - 1, Arr([x EXCEPT ![i] = xi]))

\* _solveLinearN(A, b, N): the weight vector, or NULL when singular
SolveLinearN(A, b) ==
  LET M == Arr([r \in 1..NTerms |-> Arr([k \in 1..(NTerms + 1) |->
                                   IF k <= NTerms THEN A[r][k] ELSE b[r]])])
      E == Forward(M, 1)
  IN  IF E = NULL THEN NULL
      ELSE BackSub(E, NTerms, Arr([i \in 1..NTerms |-> RZero]))

\* a pair is [iris |-> <<ix, iy>> (tenths), screen |-> <<sx, sy>> (px, rational)]
PairRow(p) == Phi(RInt(p.iris[1]), RInt(p.iris[2]))

NormalMatrix(pairs) ==
  Arr([r \in 1..NTerms |-> Arr([c \in 1..NTerms |->
     RSum([i \in 1..Len(pairs) |-> RMul(PairRow(pairs[i])[r], PairRow(pairs[i])[c])])])])

NormalRhs(pairs, axis) ==
  Arr([r \in 1..NTerms |->
     RSum([i \in 1..Len(pairs) |-> RMul(PairRow(pairs[i])[r], pairs[i].screen[axis])])])

\* a fit that solves the x-weights anew and keeps the y-weights of the model
\* it replaces
FitCalibrationKeepsWy(pairs, calib) ==
  IF Len(pairs) < MinPairs THEN [calib |-> calib, ret |-> UNDEFINED, ran |-> "insufficient"]
  ELSE LET A  == NormalMatrix(pairs)
           wx == SolveLinearN(A, NormalRhs(pairs, 1))
           wy == SolveLinearN(A, NormalRhs(pairs, 2))
       IN  IF wx # NULL /\ wy # NULL
           THEN [calib |-> [wx |-> wx, wy |-> IF calib # NULL THEN calib.wy ELSE wy],
                 ret |-> UNDEFINED, ran |-> "fitted"]
           ELSE [calib |-> calib, ret |-> UNDEFINED, ran |-> "singular"]

\* fitCalibration(pairs): the new value of _calibData and the value returned
\* to the caller (the function has no return statement with a value)
FitCalibration(pairs, calib) ==
  IF Len(pairs) < MinPairs THEN [calib |-> calib, ret |-> UNDEFINED, ran |-> "insufficient"]
  ELSE LET A  == NormalMatrix(pairs)
           wx == SolveLinearN(A, NormalRhs(pairs, 1))
           wy == SolveLinearN(A, NormalRhs(pairs, 2))
       IN  IF wx # NULL /\ wy # NULL
           THEN [calib |-> [wx |-> wx, wy |-> wy], ret |-> UNDEFINED, ran |-> "fitted"]
           ELSE [calib |-> calib, ret |-> UNDEFINED, ran |-> "singular"]

\* a mapping that treats a missing model as all-zero weights
IrisToScreenZeroModel(ix, iy, calib, b) ==
  IF calib = NULL THEN <<b[1], b[2]>>
  ELSE LET phi == Phi(ix, iy)
           sx  == RSum([i \in 1..NTerms |-> RMul(calib.wx[i], phi[i])])
           sy  == RSum([i \in 1..NTerms |-> RMul(calib.wy[i], phi[i])])
       IN  <<RAdd(sx, b[1]), RAdd(sy, b[2])>>

\* irisToScreen(ix, iy): NULL without a model, else polynomial + bias
IrisToScreen(ix, iy, calib, b) ==
  IF calib = NULL THEN NULL
  ELSE LET phi == Phi(ix, iy)
           sx  == RSum([i \in 1..NTerms |-> RMul(calib.wx[i], phi[i])])
           sy  == RSum([i \in 1..NTerms |-> RMul(calib.wy[i], phi[i])])
       IN  <<RAdd(sx, b[1]), RAdd(sy, b[2])>>


\* a bias left over from an earlier verification pass
LeftoverBias == <<RInt(10), RInt(-5)>>

\* resetCalibration() / the part of stopEyeTracker() that drops the model
NoBias == <<RZero, RZero>>

(***************************************************************************)
(* part_003 (VideoAttentionHeatmap component): constants                   *)
(***************************************************************************)
VIDEO_W == 640
VIDEO_H == 360
FPS == 30

\* CAL_WAYPOINTS, fractional canvas coordinates in hundredths
CAL_WAYPOINTS ==
  << <<50, 50>>,
     <<5, 5>>, <<95, 5>>, <<95, 95>>, <<5, 95>>,
     <<5, 5>>, <<50, 5>>, <<50, 50>>,
     <<95, 50>>, <<50, 50>>, <<50, 95>>,
     <<50, 50>>, <<5, 50>>, <<50, 50>>,
     <<30, 30>>, <<70, 30>>, <<70, 70>>,
     <<30, 70>>, <<50, 50>> >>

\* VERIFY_DOTS, fractional canvas coordinates in hundredths
VERIFY_DOTS == << <<50, 50>>, <<8, 8>>, <<92, 8>>, <<8, 92>>, <<92, 92>> >>

DWELL_MS == 1400
TRANSIT_MS == 1200
SETTLE_MS == 400

\* jump rejection: dist > 0.2, i.e. 2 tenths
JUMP_THRESH == 2
\* irisBufferRef keeps the last 20 samples
IRIS_BUFFER_MAX == 20
\* handleVerifyClick averages buf.slice(-8) and needs at least 2 samples
VERIFY_SLICE == 8
VERIFY_MIN_SAMPLES == 2

(***************************************************************************)
(* Bounds of the model                                                     *)
(***************************************************************************)
\* the animation runs over the first NumWaypoints entries of CAL_WAYPOINTS
NumWaypoints == 2
\* display frames per transit between two waypoints
TicksPerTransit == 6
\* display frames the clock runs beyond one full calibration animation
ExtraTicks == 3
\* live-gaze snapshot intervals that may be pending at once
MaxTimers == 2
\* detection loops that may be alive at once
MaxLoops == 2
\* length of the video, ms
MaxVideoTime == 800

\* period of the display frames (requestAnimationFrame), ms
TickMs == TRANSIT_MS \div TicksPerTransit
\* the clock stops advancing here
MaxTime ==
  (((NumWaypoints * (DWELL_MS + TRANSIT_MS)) \div TickMs) + ExtraTicks) * TickMs

WP == SubSeq(CAL_WAYPOINTS, 1, NumWaypoints)

\* canvas.getBoundingClientRect() (the page is neither scrolled nor resized)
CanvasRect == [left |-> 100, top |-> 50, width |-> 800, height |-> 400]

Frac(h) == Rat(h, 100)

\* cr.left + fx * cr.width, cr.top + fy * cr.height
ScreenOf(cr, dot) ==
  <<RAdd(RInt(cr.left), RMul(dot[1], RInt(cr.width))),
    RAdd(RInt(cr.top),  RMul(dot[2], RInt(cr.height)))>>

(***************************************************************************)
(* Environment: what the detector makes of the camera image of each        *)
(* display frame.  The eye moves over the 3 x 3 grid {-0.1, 0, 0.1}^2,     *)
(* neighbouring positions within the jump threshold; on a GLITCH frame the *)
(* detector reports the far-away position Glitch (further than the         *)
(* threshold from every position of the grid but <<1, 1>>); on a BLINK     *)
(* frame an eye is closed.                                                 *)
(***************************************************************************)
Glitch == <<2, 2>>
GLITCH == "glitch"
BLINK == "blink"
OPEN == "open"

FrameScript ==
  << [kind |-> OPEN,   iris |-> <<0, 0>>],
     [kind |-> OPEN,   iris |-> <<1, 0>>],
     [kind |-> GLITCH, iris |-> Glitch],
     [kind |-> OPEN,   iris |-> <<1, 1>>],
     [kind |-> OPEN,   iris |-> <<0, 1>>],
     [kind |-> OPEN,   iris |-> <<-1, 1>>],
     [kind |-> BLINK,  iris |-> <<-1, 1>>],
     [kind |-> OPEN,   iris |-> <<-1, 0>>],
     [kind |-> OPEN,   iris |-> <<-1, -1>>],
     [kind |-> GLITCH, iris |-> Glitch],
     [kind |-> OPEN,   iris |-> <<0, -1>>],
     [kind |-> OPEN,   iris |-> <<1, -1>>] >>

\* the camera image of the display frame at time t
FrameAt(t) == FrameScript[((t \div TickMs) % Len(FrameScript)) + 1]

VARIABLES
  \* eyeTracker.js module singletons
  calibData,          \* _calibData: NULL or [wx, wy]
  bias,               \* _bias
  cameraVideo,        \* _cameraVideo: "none", "new" (no data yet), "live"
  cameraStream,       \* _cameraStream # null
  faceLandmarker,     \* _faceLandmarker # null
  rafId,              \* _rafId # null
  loops,              \* detection loops that keep rescheduling themselves
  initPc,             \* where the initEyeTracker call in flight is suspended
  \* component refs
  oneEuro,            \* oneEuroRef: NULL or [x, dx, y, dy, t]
  prevIris,           \* prevIrisRef: NULL or <<ix, iy>>
  verifyStepRef,
  verifyResiduals,
  calibDotPos,        \* calibDotPosRef, fractions
  calibAnim,          \* calibAnimRef: NULL or the scheduled frame's closure
  calibAnimRunning,   \* calibAnimRunningRef
  irisBuffer,
  calibrationPairs,
  liveGaze,           \* liveGazeRef
  currentVideoTime,   \* currentVideoTimeRef, ms
  liveGazeUpdateTimer,\* liveGazeUpdateTimer.current # null
  timers,             \* setInterval timers not cleared
  recordingStart,     \* recordingStartRef: NULL or <<ms>>
  calibrated,         \* calibratedRef
  canvasRect,         \* calibrationCanvasRectRef
  liveGazeCursor,
  smoothedGaze,
  \* component state
  phase,
  etSubStatus,
  etError,
  calibrationProgress,
  liveGazeData,
  uploaded,           \* uploadedVideoUrl # null
  isPlaying,
  restartPending,     \* setTimeout(() => handleStartSession(), 0) not yet run
  \* environment
  now,                \* performance.now(), ms
  due,                \* requestAnimationFrame callbacks still to run in this display frame
  \* observation
  lastFit,            \* the last fitCalibration call: inputs, outcome, returned value
  guardLog,           \* verdicts of the last two landmark callbacks
  memo,               \* the last value an aggregation returned, with its arguments
  storedSessions      \* localStorage["focusframe_sessions"], parsed

trackerVars == <<calibData, bias, cameraVideo, cameraStream, faceLandmarker, rafId, loops, initPc>>
refVars == <<oneEuro, prevIris, verifyStepRef, verifyResiduals, calibDotPos, calibAnim,
             calibAnimRunning, irisBuffer, calibrationPairs, liveGaze, currentVideoTime,
             liveGazeUpdateTimer, timers, recordingStart, calibrated, canvasRect,
             liveGazeCursor, smoothedGaze>>
stateVars == <<phase, etSubStatus, etError, calibrationProgress, liveGazeData, uploaded,
               isPlaying, restartPending>>
envVars == <<now, due>>
obsVars == <<lastFit, guardLog, memo, storedSessions>>
vars == <<trackerVars, refVars, stateVars, envVars, obsVars>>

NoneDue == [loop |-> 0, anim |-> FALSE, play |-> FALSE]

\* what is the same in every initial state considered
InitRest ==
  /\ initPc = "none"
  /\ oneEuro = NULL
  /\ calibDotPos = <<Frac(50), Frac(50)>>
  /\ calibAnim = NULL
  /\ calibAnimRunning = FALSE
  /\ liveGaze = <<>>
  /\ currentVideoTime = 0
  /\ liveGazeUpdateTimer = FALSE
  /\ timers = 0
  /\ recordingStart = NULL
  /\ calibrated = FALSE
  /\ liveGazeCursor = NULL
  /\ smoothedGaze = NULL
  /\ etError = FALSE
  /\ liveGazeData = <<>>
  /\ isPlaying = FALSE
  /\ restartPending = FALSE
  /\ now = 0
  /\ due = NoneDue
  /\ guardLog = <<>>
  /\ memo = NULL
  /\ storedSessions = <<>>

\* the module and the component right after mounting
Init ==
  /\ InitRest
  /\ prevIris = NULL
  /\ calibrationProgress = RInt(-1)
  /\ lastFit = NULL
  /\ calibData = NULL
  /\ bias = NoBias
  /\ cameraVideo = "none"
  /\ cameraStream = FALSE
  /\ faceLandmarker = FALSE
  /\ rafId = FALSE
  /\ loops = 0
  /\ verifyStepRef = 0
  /\ verifyResiduals = <<>>
  /\ irisBuffer = <<>>
  /\ calibrationPairs = <<>>
  /\ canvasRect = NULL
  /\ phase = "idle"
  /\ etSubStatus = "idle"
  /\ uploaded = FALSE


(***************************************************************************)
(* The 1-euro filter of the landmark callback.  Doubles are rationals; the *)
(* results of the filter's arithmetic are rounded to 1/64 (positions,      *)
(* velocities) and 1/256 (smoothing coefficients) , pi is 355/113 and the  *)
(* square root is taken on eighths.                                        *)
(***************************************************************************)
MIN_FC == Rat(1, 2)
BETA == Rat(8, 100)
D_FC == RInt(1)
\* Math.max(now_s - prev1e.t, 1e-4)
DT_FLOOR == Rat(1, 10000)
PI == Rat(355, 113)

\* r rounded to the nearest multiple of 1/k; the fractional part of r is first
\* brought to a denominator of at most 20 bits
Quant(r, k) ==
  LET s == (r[2] \div 1048576) + 1
  IN  Rat((r[1] \div r[2]) * k + RRound(<<((r[1] % r[2]) \div s) * k, r[2] \div s>>), k)
Q64(r) == Quant(r, 64)
Q256(r) == Quant(r, 256)

RECURSIVE ISqrtFrom(_, _)
ISqrtFrom(v, r) ==
  LET nx == (r + v \div r) \div 2
  IN  IF nx >= r THEN r ELSE ISqrtFrom(v, nx)
\* floor of the square root
ISqrt(v) == IF v <= 0 THEN 0 ELSE ISqrtFrom(v, v)

\* Math.sqrt(dx * dx + dy * dy)
Speed(dx, dy) ==
  LET m == RRound(RMul(dx, RInt(8)))
      n == RRound(RMul(dy, RInt(8)))
  IN  Rat(ISqrt(m * m + n * n), 8)

\* 1 / (1 + 1 / (2 * Math.PI * fc * dt))
Alpha(fc, dt) ==
  LET x == RMul(RMul(RInt(2), PI), Q256(RMul(fc, dt)))
  IN  Q256(RDiv(x, RAdd(RInt(1), x)))

\* a blend that adds the weighted input to the previous value
LerpAccumulate(a, raw, prev) == Q64(RAdd(RMul(a, raw), prev))

Lerp(a, raw, prev) == Q64(RAdd(RMul(a, raw), RMul(RSub(RInt(1), a), prev)))

\* fc = MIN_FC + BETA * speed
Cutoff(dx, dy) == RAdd(MIN_FC, RMul(BETA, Speed(dx, dy)))

\* the filter state once the velocities dx, dy have been computed
OneEuroAt(prev1e, rawCx, rawCy, t, dt, dx, dy) ==
  LET fc == Cutoff(dx, dy)
      a  == Alpha(fc, dt)
  IN  [x |-> Lerp(a, rawCx, prev1e.x), dx |-> dx,
       y |-> Lerp(a, rawCy, prev1e.y), dy |-> dy, t |-> t]

\* a filter whose first sample starts from the origin of the frame
OneEuroFromOrigin(prev1e, rawCx, rawCy, t) ==
  IF prev1e = NULL
  THEN [x |-> RZero, dx |-> RZero, y |-> RZero, dy |-> RZero, t |-> t]
  ELSE LET el  == Rat(t - prev1e.t, 1000)
           dt  == IF RLt(el, DT_FLOOR) THEN DT_FLOOR ELSE el
           ad  == Alpha(D_FC, dt)
           dxRaw == Q64(RDiv(RSub(rawCx, prev1e.x), dt))
           dyRaw == Q64(RDiv(RSub(rawCy, prev1e.y), dt))
       IN  CHOOSE st \in { OneEuroAt(prev1e, rawCx, rawCy, t, dt, v[1], v[2]) :
                             v \in {<<Lerp(ad, dxRaw, prev1e.dx),
                                      Lerp(ad, dyRaw, prev1e.dy)>>} } : TRUE

\* the new oneEuroRef.current after a sample mapped to (rawCx, rawCy) at time t (ms)
OneEuro(prev1e, rawCx, rawCy, t) ==
  IF prev1e = NULL
  THEN [x |-> rawCx, dx |-> RZero, y |-> rawCy, dy |-> RZero, t |-> t]
  ELSE LET el  == Rat(t - prev1e.t, 1000)
           dt  == IF RLt(el, DT_FLOOR) THEN DT_FLOOR ELSE el
           ad  == Alpha(D_FC, dt)
           dxRaw == Q64(RDiv(RSub(rawCx, prev1e.x), dt))
           dyRaw == Q64(RDiv(RSub(rawCy, prev1e.y), dt))
       IN  CHOOSE st \in { OneEuroAt(prev1e, rawCx, rawCy, t, dt, v[1], v[2]) :
                             v \in {<<Lerp(ad, dxRaw, prev1e.dx),
                                      Lerp(ad, dyRaw, prev1e.dy)>>} } : TRUE

\* if (sc.x >= 0 && sc.x < VIDEO_W && sc.y >= 0 && sc.y < VIDEO_H)
InFrame(x, y) ==
  /\ RLe(RZero, x) /\ RLt(x, RInt(VIDEO_W))
  /\ RLe(RZero, y) /\ RLt(y, RInt(VIDEO_H))

\* a point stamped with the time left until the recording started
GazePointCountdown(x, y, videoTime, recStart, t) ==
  [timestamp |-> videoTime,
   wallTime  |-> IF recStart # NULL THEN recStart[1] - t ELSE 0,
   x |-> RRound(x), y |-> RRound(y),
   frame |-> RRound(Rat(videoTime * FPS, 1000))]

\* the object pushed on liveGazeRef.current (times in ms)
GazePoint(x, y, videoTime, recStart, t) ==
  [timestamp |-> videoTime,
   wallTime  |-> IF recStart # NULL THEN t - recStart[1] ELSE 0,
   x |-> RRound(x), y |-> RRound(y),
   frame |-> RRound(Rat(videoTime * FPS, 1000))]

(***************************************************************************)
(* The landmark callback passed to initEyeTracker                          *)
(***************************************************************************)
DistSq(a, b) == (a[1] - b[1]) * (a[1] - b[1]) + (a[2] - b[2]) * (a[2] - b[2])

\* a guard that only rejects jumps above 0.3
IsJumpAbove3(prev, s) == prev # NULL /\ DistSq(s, prev) > 9

\* prev && dist > 0.2
IsJump(prev, s) == prev # NULL /\ DistSq(s, prev) > JUMP_THRESH * JUMP_THRESH

\* push, then shift when longer than 20
PushIris(buf, s) ==
  LET b == Append(buf, s)
  IN  IF Len(b) > IRIS_BUFFER_MAX THEN Tail(b) ELSE b

Last2(log, v) == IF Len(log) = 0 THEN <<v>> ELSE <<log[Len(log)], v>>

\* pair recording that ignores calibAnimRunningRef
RecordsPairAlways == canvasRect # NULL

\* pair recording during the whole animation, transits included
RecordsPairWhileAnimating == calibAnim # NULL /\ canvasRect # NULL

\* if (calibAnimRunningRef.current) { ... if (cr) { push } }
RecordsPair == calibAnimRunning /\ canvasRect # NULL

\* onIris({x: s[1], y: s[2]}) at time t
OnIris(s, t) ==
  IF IsJump(prevIris, s)
  THEN /\ prevIris' = s
       /\ guardLog' = Last2(guardLog, "rejected")
       /\ UNCHANGED <<irisBuffer, calibrationPairs, oneEuro, smoothedGaze,
                      liveGazeCursor, liveGaze>>
  ELSE /\ prevIris' = s
       /\ guardLog' = Last2(guardLog, "accepted")
       /\ irisBuffer' = PushIris(irisBuffer, s)
       /\ calibrationPairs' =
            IF RecordsPair
            THEN Append(calibrationPairs,
                        [iris |-> s, screen |-> ScreenOf(canvasRect, calibDotPos)])
            ELSE calibrationPairs
       /\ LET screenPt == IrisToScreen(RInt(s[1]), RInt(s[2]), calibData, bias)
          IN  IF screenPt = NULL
              THEN UNCHANGED <<oneEuro, smoothedGaze, liveGazeCursor, liveGaze>>
              ELSE \E raw \in {<<Q64(RMul(RSub(screenPt[1], RInt(CanvasRect.left)),
                                          Rat(VIDEO_W, CanvasRect.width))),
                                   Q64(RMul(RSub(screenPt[2], RInt(CanvasRect.top)),
                                          Rat(VIDEO_H, CanvasRect.height)))>>} :
                   \E st \in {OneEuro(oneEuro, raw[1], raw[2], t)} :
                       /\ oneEuro' = st
                       /\ smoothedGaze' = <<st.x, st.y>>
                       /\ liveGazeCursor' = <<RRound(st.x), RRound(st.y)>>
                       /\ liveGaze' =
                            IF InFrame(st.x, st.y)
                            THEN Append(liveGaze,
                                        GazePoint(st.x, st.y, currentVideoTime, recordingStart, t))
                            ELSE liveGaze

\* an iteration of _loop gets past its early return and calls detectForVideo
TrackerDelivers == cameraVideo = "live" /\ faceLandmarker

LoopRest ==
  /\ rafId' = TRUE
  /\ due' = [due EXCEPT !.loop = @ - 1]
  /\ UNCHANGED <<calibData, bias, cameraVideo, cameraStream, faceLandmarker, loops, initPc>>
  /\ UNCHANGED <<verifyStepRef, verifyResiduals, calibDotPos, calibAnim, calibAnimRunning,
                 currentVideoTime, liveGazeUpdateTimer, timers, recordingStart, calibrated,
                 canvasRect>>
  /\ UNCHANGED <<stateVars, now, lastFit, memo, storedSessions>>

NoCallback ==
  UNCHANGED <<prevIris, guardLog, irisBuffer, calibrationPairs, oneEuro, smoothedGaze,
              liveGazeCursor, liveGaze>>

BLINK_THRESH == 15

\* rEyeH / rEyeW and lEyeH / lEyeW, in hundredths, the landmarks of the
\* frame may show: in a blink or squint frame an eye is nearly shut
EyeRatios(f) ==
  IF f.kind = BLINK THEN {<<30, 10>>, <<10, 30>>, <<14, 15>>, <<5, 5>>}
  ELSE {<<30, 30>>, <<15, 40>>, <<15, 15>>}

\* a test that skips the frame only when both eyes are shut
IsBlinkBothEyes(r) == r[1] < BLINK_THRESH /\ r[2] < BLINK_THRESH

\* rEyeH / rEyeW < BLINK_THRESH || lEyeH / lEyeW < BLINK_THRESH
IsBlink(r) == r[1] < BLINK_THRESH \/ r[2] < BLINK_THRESH

\* _loop: a frame with a face and open eyes
LoopSample ==
  /\ due.loop > 0 /\ TrackerDelivers
  /\ FrameAt(now).kind # GLITCH
  /\ \E r \in EyeRatios(FrameAt(now)) : ~IsBlink(r)
  /\ OnIris(FrameAt(now).iris, now)
  /\ LoopRest

\* _loop: a frame on which the detector reports a far-away iris position
LoopGlitch ==
  /\ due.loop > 0 /\ TrackerDelivers
  /\ FrameAt(now).kind = GLITCH
  /\ \E r \in EyeRatios(FrameAt(now)) : ~IsBlink(r)
  /\ OnIris(FrameAt(now).iris, now)
  /\ LoopRest

\* _loop: a blink or squint frame, return before onIris
LoopBlink ==
  /\ due.loop > 0 /\ TrackerDelivers
  /\ \E r \in EyeRatios(FrameAt(now)) : IsBlink(r)
  /\ NoCallback
  /\ LoopRest

\* _loop: the camera element is missing or has no data, or the landmarker is missing
LoopNoSample ==
  /\ due.loop > 0 /\ ~TrackerDelivers
  /\ NoCallback
  /\ LoopRest

(***************************************************************************)
(* eyeTracker.js: teardown                                                 *)
(***************************************************************************)
\* stopEyeTracker(): cancelAnimationFrame(_rafId) ends the loop that wrote _rafId last
StopEyeTracker ==
  /\ loops' = IF rafId THEN loops - 1 ELSE loops
  /\ rafId' = FALSE
  /\ faceLandmarker' = FALSE
  /\ cameraStream' = FALSE
  /\ cameraVideo' = "none"
  /\ calibData' = NULL
  /\ bias' = NoBias

TrackerUntouched ==
  UNCHANGED <<loops, rafId, faceLandmarker, cameraStream, cameraVideo, calibData, bias>>

\* the effect that runs once phase = CALIBRATING and etSubStatus = "ready"
EffectPending == phase = "calibrating" /\ etSubStatus = "ready"

\* events are handled between display frames, after pending effects and timeouts
UserCanAct == due = NoneDue /\ ~restartPending /\ ~EffectPending

(***************************************************************************)
(* Moving-dot calibration animation                                        *)
(***************************************************************************)
\* Math.cos(Math.PI * t) on [0, 1] by Bhaskara's rational approximation,
\* exact at 0, 1/3, 1/2, 2/3 and 1
CosPi(t) ==
  LET C(u) == RDiv(RSub(RInt(1), RMul(RInt(4), RMul(u, u))), RAdd(RInt(1), RMul(u, u)))
  IN  IF RLe(t, Rat(1, 2)) THEN C(t) ELSE RNeg(C(RSub(RInt(1), t)))

\* -(Math.cos(Math.PI * t) - 1) / 2
Eased(t) == RDiv(RSub(RInt(1), CosPi(t)), RInt(2))

RMin(a, b) == IF RLt(b, a) THEN b ELSE a

WpFrac(i) == <<Frac(WP[i + 1][1]), Frac(WP[i + 1][2])>>

TOTAL_MS == NumWaypoints * DWELL_MS + (NumWaypoints - 1) * TRANSIT_MS

\* Math.min(elapsed / TOTAL_MS, 1)
Progress(wpIdx, phaseElapsed) ==
  RMin(Rat(wpIdx * (DWELL_MS + TRANSIT_MS) + phaseElapsed, TOTAL_MS), RInt(1))

\* a frame that moves on by two waypoints
SkipWaypoint(wpIdx) == wpIdx + 2

\* wpIdx++
NextWaypoint(wpIdx) == wpIdx + 1

\* beginCalibrationAnimation: the "Start Calibration" button of the overlay
BeginCalibrationAnimation ==
  /\ UserCanAct
  /\ phase = "calibrating" /\ etSubStatus = "dot-ready"
  /\ canvasRect # NULL
  /\ calibrationPairs' = <<>>
  /\ calibAnimRunning' = FALSE
  /\ etSubStatus' = "dot-running"
  /\ calibDotPos' = WpFrac(0)
  /\ calibAnim' = [wpIdx |-> 0, phaseName |-> "dwell", phaseStart |-> now]
  /\ UNCHANGED trackerVars
  /\ UNCHANGED <<oneEuro, prevIris, verifyStepRef, verifyResiduals, irisBuffer, liveGaze,
                 currentVideoTime, liveGazeUpdateTimer, timers, recordingStart, calibrated,
                 canvasRect, liveGazeCursor, smoothedGaze>>
  /\ UNCHANGED <<phase, etError, calibrationProgress, liveGazeData, uploaded, isPlaying,
                 restartPending>>
  /\ UNCHANGED <<envVars, obsVars>>

\* frame(now) of beginCalibrationAnimation
AnimFrame ==
  /\ calibAnim # NULL
  /\ due.anim /\ due.loop = 0
  /\ due' = [due EXCEPT !.anim = FALSE]
  /\ LET t  == now
         c  == calibAnim
         N  == NumWaypoints
         phaseElapsed == t - c.phaseStart
     IN  IF c.phaseName = "dwell"
         THEN IF phaseElapsed >= DWELL_MS
              THEN IF c.wpIdx < N - 1
                   THEN \* dwell over: start the transit to the next waypoint
                        /\ calibAnimRunning' = FALSE
                        /\ calibAnim' = [wpIdx |-> NextWaypoint(c.wpIdx),
                                         phaseName |-> "transit", phaseStart |-> t]
                        /\ calibrationProgress' = Progress(NextWaypoint(c.wpIdx), phaseElapsed)
                        /\ UNCHANGED <<calibDotPos, calibData, verifyStepRef, verifyResiduals,
                                       etSubStatus, lastFit>>
                   ELSE \* last dwell over: fit, then verification
                        LET fit == FitCalibration(calibrationPairs, calibData)
                        IN  /\ calibAnimRunning' = FALSE
                            /\ calibAnim' = NULL
                            /\ calibData' = fit.calib
                            /\ lastFit' = [n |-> Len(calibrationPairs), ran |-> fit.ran,
                                           ret |-> fit.ret, before |-> calibData,
                                           after |-> fit.calib]
                            /\ verifyStepRef' = 0
                            /\ verifyResiduals' = <<>>
                            /\ etSubStatus' = "verifying"
                            /\ UNCHANGED <<calibDotPos, calibrationProgress>>
              ELSE /\ calibAnimRunning' = (phaseElapsed >= SETTLE_MS)
                   /\ calibAnim' = c
                   /\ calibrationProgress' = Progress(c.wpIdx, phaseElapsed)
                   /\ UNCHANGED <<calibDotPos, calibData, verifyStepRef, verifyResiduals,
                                  etSubStatus, lastFit>>
         ELSE LET a  == WpFrac(c.wpIdx - 1)
                  b  == WpFrac(c.wpIdx)
                  tt == RMin(Rat(phaseElapsed, TRANSIT_MS), RInt(1))
                  e  == Eased(tt)
              IN  /\ calibAnimRunning' = FALSE
                  /\ IF phaseElapsed >= TRANSIT_MS
                     THEN /\ calibDotPos' = b
                          /\ calibAnim' = [c EXCEPT !.phaseName = "dwell", !.phaseStart = t]
                     ELSE /\ calibDotPos' = <<RAdd(a[1], RMul(RSub(b[1], a[1]), e)),
                                              RAdd(a[2], RMul(RSub(b[2], a[2]), e))>>
                          /\ calibAnim' = c
                  /\ calibrationProgress' = Progress(c.wpIdx, phaseElapsed)
                  /\ UNCHANGED <<calibData, verifyStepRef, verifyResiduals, etSubStatus, lastFit>>
  /\ UNCHANGED <<bias, cameraVideo, cameraStream, faceLandmarker, rafId, loops, initPc>>
  /\ UNCHANGED <<oneEuro, prevIris, irisBuffer, calibrationPairs, liveGaze, currentVideoTime,
                 liveGazeUpdateTimer, timers, recordingStart, calibrated, canvasRect,
                 liveGazeCursor, smoothedGaze>>
  /\ UNCHANGED <<phase, etError, liveGazeData, uploaded, isPlaying, restartPending>>
  /\ UNCHANGED <<now, guardLog, memo, storedSessions>>

(***************************************************************************)
(* Verification pass                                                       *)
(***************************************************************************)
\* buf.slice(-8)
LastN(buf, n) == IF Len(buf) <= n THEN buf ELSE SubSeq(buf, Len(buf) - n + 1, Len(buf))

\* samples.reduce((s, p) => s + p.x, 0) / samples.length
MeanOf(samples, axis) ==
  RDiv(RSum([i \in 1..Len(samples) |-> RInt(samples[i][axis])]), RInt(Len(samples)))

\* a correction taken from the first residual alone
FirstResidual(res, axis) == res[1][axis]

\* res.reduce((s, r) => s + r.dx, 0) / res.length
MeanResidual(res, axis) ==
  RDiv(RSum([i \in 1..Len(res) |-> res[i][axis]]), RInt(Len(res)))

\* residuals taken as prediction minus target
ResidualsFlipped(res, step, buf, cr, calib, b) ==
  LET dot     == <<Frac(VERIFY_DOTS[step + 1][1]), Frac(VERIFY_DOTS[step + 1][2])>>
      dotS    == ScreenOf(cr, dot)
      samples == LastN(buf, VERIFY_SLICE)
  IN  IF Len(samples) >= VERIFY_MIN_SAMPLES
      THEN LET pred == IrisToScreen(MeanOf(samples, 1), MeanOf(samples, 2), calib, b)
           IN  IF pred # NULL
               THEN Append(res, <<RSub(pred[1], dotS[1]), RSub(pred[2], dotS[2])>>)
               ELSE res
      ELSE res

\* the residual handleVerifyClick pushes for the dot at index step, if any
ResidualsAfterClick(res, step, buf, cr, calib, b) ==
  LET dot     == <<Frac(VERIFY_DOTS[step + 1][1]), Frac(VERIFY_DOTS[step + 1][2])>>
      dotS    == ScreenOf(cr, dot)
      samples == LastN(buf, VERIFY_SLICE)
  IN  IF Len(samples) >= VERIFY_MIN_SAMPLES
      THEN LET pred == IrisToScreen(MeanOf(samples, 1), MeanOf(samples, 2), calib, b)
           IN  IF pred # NULL
               THEN Append(res, <<RSub(dotS[1], pred[1]), RSub(dotS[2], pred[2])>>)
               ELSE res
      ELSE res

\* a pass that ends one target early
PassEndsEarly(next) == next >= Len(VERIFY_DOTS) - 1

\* if (next >= VERIFY_DOTS.length)
PassEnds(next) == next >= Len(VERIFY_DOTS)

\* handleVerifyClick: a click on the verification dot
HandleVerifyClick ==
  /\ UserCanAct
  /\ phase = "calibrating" /\ etSubStatus = "verifying"
  /\ canvasRect # NULL
  /\ LET res  == ResidualsAfterClick(verifyResiduals, verifyStepRef, irisBuffer,
                                     canvasRect, calibData, bias)
         next == verifyStepRef + 1
     IN  /\ verifyResiduals' = res
         /\ verifyStepRef' = next
         /\ IF PassEnds(next)
            THEN /\ bias' = IF Len(res) > 0
                            THEN <<MeanResidual(res, 1), MeanResidual(res, 2)>>
                            ELSE bias
                 /\ etSubStatus' = "ready"
            ELSE UNCHANGED <<bias, etSubStatus>>
  /\ UNCHANGED <<calibData, cameraVideo, cameraStream, faceLandmarker, rafId, loops, initPc>>
  /\ UNCHANGED <<oneEuro, prevIris, calibDotPos, calibAnim, calibAnimRunning, irisBuffer,
                 calibrationPairs, liveGaze, currentVideoTime, liveGazeUpdateTimer, timers,
                 recordingStart, calibrated, canvasRect, liveGazeCursor, smoothedGaze>>
  /\ UNCHANGED <<phase, etError, calibrationProgress, liveGazeData, uploaded, isPlaying,
                 restartPending>>
  /\ UNCHANGED <<envVars, obsVars>>

\* the auto-transition effect: verification done, start recording
AutoTransition ==
  /\ EffectPending
  /\ due = NoneDue
  /\ timers < MaxTimers
  /\ calibrated' = TRUE
  /\ timers' = timers + 1
  /\ liveGazeUpdateTimer' = TRUE
  /\ phase' = "recording"
  /\ recordingStart' = <<now>>
  /\ isPlaying' = TRUE
  /\ UNCHANGED trackerVars
  /\ UNCHANGED <<oneEuro, prevIris, verifyStepRef, verifyResiduals, calibDotPos, calibAnim,
                 calibAnimRunning, irisBuffer, calibrationPairs, liveGaze, currentVideoTime,
                 canvasRect, liveGazeCursor, smoothedGaze>>
  /\ UNCHANGED <<etSubStatus, etError, calibrationProgress, liveGazeData, uploaded,
                 restartPending>>
  /\ UNCHANGED <<envVars, obsVars>>

\* setInterval(() => setLiveGazeData([...liveGazeRef.current]), 200)
LiveGazeTimerFires ==
  /\ timers > 0
  /\ due = NoneDue
  /\ liveGazeData # liveGaze
  /\ liveGazeData' = liveGaze
  /\ UNCHANGED <<trackerVars, refVars, envVars, obsVars>>
  /\ UNCHANGED <<phase, etSubStatus, etError, calibrationProgress, uploaded, isPlaying,
                 restartPending>>

(***************************************************************************)
(* Session handlers                                                        *)
(***************************************************************************)
\* clearInterval(liveGazeUpdateTimer.current) clears the interval the ref names
ClearLiveGazeTimer ==
  /\ timers' = IF liveGazeUpdateTimer THEN timers - 1 ELSE timers
  /\ liveGazeUpdateTimer' = FALSE

\* destroyEyeTracker() unless calibratedRef.current
DestroyUnlessCalibrated == IF ~calibrated THEN StopEyeTracker ELSE TrackerUntouched

\* the body of handleNewSession
NewSessionBody ==
  /\ calibAnim' = NULL
  /\ calibAnimRunning' = FALSE
  /\ ClearLiveGazeTimer
  /\ DestroyUnlessCalibrated
  /\ liveGaze' = <<>>
  /\ liveGazeCursor' = NULL
  /\ smoothedGaze' = NULL
  /\ liveGazeData' = <<>>
  /\ phase' = "idle"
  /\ etSubStatus' = "idle"
  /\ currentVideoTime' = 0
  /\ isPlaying' = FALSE
  /\ recordingStart' = NULL
  /\ UNCHANGED <<initPc, oneEuro, prevIris, verifyStepRef, verifyResiduals, calibDotPos,
                 irisBuffer, calibrationPairs, calibrated, canvasRect>>
  /\ UNCHANGED <<etError, calibrationProgress>>
  /\ UNCHANGED <<envVars, obsVars>>


\* a Cancel button that is only shown until the tracker is ready
CancelWhileLoading ==
  /\ UserCanAct
  /\ phase = "calibrating" /\ etSubStatus = "loading"
  /\ NewSessionBody
  /\ UNCHANGED <<uploaded, restartPending>>

\* handleNewSession from a Cancel button (shown while phase is CALIBRATING)
HandleNewSession ==
  /\ UserCanAct
  /\ phase = "calibrating"
  /\ NewSessionBody
  /\ UNCHANGED <<uploaded, restartPending>>

\* handleFileUpload: Select / Replace in the sidebar, in any phase
HandleFileUpload ==
  /\ UserCanAct
  /\ uploaded' = TRUE
  /\ NewSessionBody
  /\ UNCHANGED restartPending

\* clearUploadedVideo: Clear in the sidebar, in any phase
ClearUploadedVideo ==
  /\ UserCanAct
  /\ uploaded
  /\ uploaded' = FALSE
  /\ NewSessionBody
  /\ UNCHANGED restartPending

\* handleStopSession
StopSessionBody ==
  /\ calibAnim' = NULL
  /\ calibAnimRunning' = FALSE
  /\ DestroyUnlessCalibrated
  /\ ClearLiveGazeTimer
  /\ liveGazeCursor' = NULL
  /\ smoothedGaze' = NULL
  /\ oneEuro' = NULL
  /\ prevIris' = NULL
  /\ isPlaying' = FALSE
  /\ liveGazeData' = liveGaze
  /\ etSubStatus' = "idle"
  /\ phase' = "review"
  /\ currentVideoTime' = 0
  /\ UNCHANGED <<initPc, verifyStepRef, verifyResiduals, calibDotPos, irisBuffer,
                 calibrationPairs, liveGaze, recordingStart, calibrated, canvasRect>>
  /\ UNCHANGED <<etError, calibrationProgress, uploaded, restartPending>>
  /\ UNCHANGED <<envVars, obsVars>>

\* the Stop button (shown while phase is RECORDING)
HandleStopSession ==
  /\ UserCanAct
  /\ phase = "recording"
  /\ StopSessionBody

\* handleVideoEnded: the video element's ended event
HandleVideoEnded ==
  /\ UserCanAct
  /\ uploaded /\ isPlaying
  /\ IF phase = "recording"
     THEN StopSessionBody
     ELSE /\ isPlaying' = FALSE
          /\ currentVideoTime' = 0
          /\ UNCHANGED <<trackerVars, envVars, obsVars>>
          /\ UNCHANGED <<oneEuro, prevIris, verifyStepRef, verifyResiduals, calibDotPos,
                         calibAnim, calibAnimRunning, irisBuffer, calibrationPairs, liveGaze,
                         liveGazeUpdateTimer, timers, recordingStart, calibrated, canvasRect,
                         liveGazeCursor, smoothedGaze>>
          /\ UNCHANGED <<phase, etSubStatus, etError, calibrationProgress, liveGazeData,
                         uploaded, restartPending>>

\* the playback loop's tick: setCurrentTime(v.currentTime), synced to currentVideoTimeRef
PlaybackTick ==
  /\ due.play /\ due.loop = 0 /\ ~due.anim
  /\ due' = [due EXCEPT !.play = FALSE]
  /\ currentVideoTime' = IF currentVideoTime < MaxVideoTime
                         THEN currentVideoTime + TickMs ELSE currentVideoTime
  /\ UNCHANGED <<trackerVars, stateVars, obsVars, now>>
  /\ UNCHANGED <<oneEuro, prevIris, verifyStepRef, verifyResiduals, calibDotPos, calibAnim,
                 calibAnimRunning, irisBuffer, calibrationPairs, liveGaze,
                 liveGazeUpdateTimer, timers, recordingStart, calibrated, canvasRect,
                 liveGazeCursor, smoothedGaze>>

\* handleRecalibrate: the Recalibrate button (IDLE, calibratedRef set)
HandleRecalibrate ==
  /\ UserCanAct
  /\ phase = "idle" /\ calibrated
  /\ calibrated' = FALSE
  /\ StopEyeTracker
  /\ oneEuro' = NULL
  /\ prevIris' = NULL
  /\ irisBuffer' = <<>>
  /\ calibrationPairs' = <<>>
  /\ UNCHANGED <<initPc, verifyStepRef, verifyResiduals, calibDotPos, calibAnim,
                 calibAnimRunning, liveGaze, currentVideoTime, liveGazeUpdateTimer, timers,
                 recordingStart, canvasRect, liveGazeCursor, smoothedGaze>>
  /\ UNCHANGED <<stateVars, envVars, obsVars>>

\* uploadedVideoUrl as handleStartSession sees it: useCallback(..., []) keeps the
\* closure of the first render, where the state is still null
StartSessionUploadedVideoUrl == FALSE

\* the body of handleStartSession up to its first await
StartSessionBody ==
  /\ liveGaze' = <<>>
  /\ liveGazeData' = <<>>
  /\ currentVideoTime' = 0
  /\ calibrationProgress' = RInt(-1)
  /\ oneEuro' = NULL
  /\ prevIris' = NULL
  /\ liveGazeCursor' = NULL
  /\ smoothedGaze' = NULL
  /\ etError' = FALSE
  /\ IF calibrated
     THEN /\ timers < MaxTimers
          /\ etSubStatus' = "ready"
          /\ timers' = timers + 1
          /\ liveGazeUpdateTimer' = TRUE
          /\ IF uploaded /\ StartSessionUploadedVideoUrl
             THEN /\ recordingStart' = <<now>>
                  /\ phase' = "recording"
                  /\ isPlaying' = TRUE
             ELSE /\ recordingStart' = NULL
                  /\ UNCHANGED <<phase, isPlaying>>
          /\ UNCHANGED <<trackerVars, irisBuffer, calibrationPairs>>
     ELSE /\ initPc = "none"
          /\ recordingStart' = NULL
          /\ irisBuffer' = <<>>
          /\ calibrationPairs' = <<>>
          /\ calibData' = NULL
          /\ bias' = NoBias
          /\ phase' = "calibrating"
          /\ etSubStatus' = "loading"
          \* initEyeTracker up to await getUserMedia: a new <video> element
          /\ cameraVideo' = "new"
          /\ initPc' = "getUserMedia"
          /\ UNCHANGED <<cameraStream, faceLandmarker, rafId, loops, timers,
                         liveGazeUpdateTimer, isPlaying>>
  /\ UNCHANGED <<verifyStepRef, verifyResiduals, calibDotPos, calibAnim, calibAnimRunning,
                 calibrated, canvasRect, uploaded>>
  /\ UNCHANGED <<envVars, obsVars>>

\* the Start Session button (IDLE, enabled once a video is selected)
HandleStartSession ==
  /\ UserCanAct
  /\ phase = "idle" /\ uploaded
  /\ StartSessionBody
  /\ UNCHANGED restartPending

\* the Restart button of REVIEW: handleNewSession(), then handleStartSession by timeout
Restart ==
  /\ UserCanAct
  /\ phase = "review"
  /\ NewSessionBody
  /\ restartPending' = TRUE
  /\ UNCHANGED uploaded

RestartFires ==
  /\ restartPending
  /\ due = NoneDue
  /\ StartSessionBody
  /\ restartPending' = FALSE

(***************************************************************************)
(* initEyeTracker after each of its awaits                                 *)
(***************************************************************************)
\* the catch block of handleStartSession
InitFailed ==
  /\ etError' = TRUE
  /\ etSubStatus' = "idle"
  /\ phase' = "idle"
  /\ initPc' = "none"

InitStepRest ==
  /\ due = NoneDue
  /\ UNCHANGED <<calibData, bias, rafId, loops>>
  /\ UNCHANGED <<oneEuro, prevIris, verifyStepRef, verifyResiduals, calibAnim,
                 calibAnimRunning, irisBuffer, calibrationPairs, liveGaze, currentVideoTime,
                 liveGazeUpdateTimer, timers, recordingStart, calibrated, liveGazeCursor,
                 smoothedGaze>>
  /\ UNCHANGED <<calibrationProgress, liveGazeData, uploaded, isPlaying, restartPending>>
  /\ UNCHANGED <<envVars, obsVars>>

\* getUserMedia resolves; _cameraVideo.srcObject = stream throws if the element is gone
InitCameraGranted ==
  /\ initPc = "getUserMedia"
  /\ cameraStream' = TRUE
  /\ IF cameraVideo = "none"
     THEN InitFailed
     ELSE /\ initPc' = "metadata"
          /\ UNCHANGED <<phase, etSubStatus, etError>>
  /\ UNCHANGED <<cameraVideo, faceLandmarker, canvasRect, calibDotPos>>
  /\ InitStepRest

\* getUserMedia rejects
InitCameraDenied ==
  /\ initPc = "getUserMedia"
  /\ InitFailed
  /\ UNCHANGED <<cameraStream, cameraVideo, faceLandmarker, canvasRect, calibDotPos>>
  /\ InitStepRest

\* loadedmetadata and play(): the element now has data; if it was removed
\* meanwhile the event never comes and the call stays suspended for good
InitMetadata ==
  /\ initPc = "metadata"
  /\ IF cameraVideo = "none"
     THEN /\ initPc' = "none"
          /\ UNCHANGED cameraVideo
     ELSE /\ initPc' = "load"
          /\ cameraVideo' = "live"
  /\ UNCHANGED <<cameraStream, faceLandmarker, canvasRect, calibDotPos, phase, etSubStatus,
                 etError>>
  /\ InitStepRest

\* FilesetResolver / createFromOptions rejects
InitLoadFailed ==
  /\ initPc = "load"
  /\ InitFailed
  /\ UNCHANGED <<cameraStream, cameraVideo, faceLandmarker, canvasRect, calibDotPos>>
  /\ InitStepRest

\* the landmarker is created, _loop() starts, initEyeTracker resolves and
\* handleStartSession shows the calibration overlay
InitLoaded ==
  /\ initPc = "load"
  /\ due = NoneDue
  /\ loops < MaxLoops
  /\ faceLandmarker' = TRUE
  /\ loops' = loops + 1
  /\ rafId' = TRUE
  /\ etSubStatus' = "dot-ready"
  /\ canvasRect' = CanvasRect
  /\ calibDotPos' = <<Frac(50), Frac(50)>>
  /\ initPc' = "none"
  /\ UNCHANGED <<calibData, bias, cameraVideo, cameraStream>>
  /\ UNCHANGED <<oneEuro, prevIris, verifyStepRef, verifyResiduals, calibAnim,
                 calibAnimRunning, irisBuffer, calibrationPairs, liveGaze, currentVideoTime,
                 liveGazeUpdateTimer, timers, recordingStart, calibrated, liveGazeCursor,
                 smoothedGaze>>
  /\ UNCHANGED <<phase, etError, calibrationProgress, liveGazeData, uploaded, isPlaying,
                 restartPending>>
  /\ UNCHANGED <<envVars, obsVars>>

\* a callback that reads performance.now() is scheduled for the next display frame
ClockObserved ==
  \/ loops > 0 /\ TrackerDelivers
  \/ calibAnim # NULL
  \/ isPlaying /\ uploaded

\* the browser starts a display frame: every requestAnimationFrame callback
\* scheduled so far runs once, the detection loops first, then the animation,
\* then the playback loop.  Frames in which nothing reads the clock are not
\* counted in now.
DisplayFrame ==
  /\ due = NoneDue /\ ~restartPending /\ ~EffectPending
  /\ loops > 0 \/ calibAnim # NULL \/ (isPlaying /\ uploaded)
  /\ ClockObserved => now + TickMs <= MaxTime
  /\ now' = IF ClockObserved THEN now + TickMs ELSE now
  /\ due' = [loop |-> loops, anim |-> calibAnim # NULL, play |-> isPlaying /\ uploaded]
  /\ UNCHANGED <<trackerVars, refVars, stateVars, obsVars>>

Next ==
  \/ DisplayFrame
  \/ LoopSample
  \/ LoopGlitch
  \/ LoopBlink
  \/ LoopNoSample
  \/ BeginCalibrationAnimation
  \/ AnimFrame
  \/ HandleVerifyClick
  \/ AutoTransition
  \/ LiveGazeTimerFires
  \/ HandleNewSession
  \/ HandleFileUpload
  \/ ClearUploadedVideo
  \/ HandleStopSession
  \/ HandleVideoEnded
  \/ PlaybackTick
  \/ HandleRecalibrate
  \/ HandleStartSession
  \/ Restart
  \/ RestartFires
  \/ InitCameraGranted
  \/ InitCameraDenied
  \/ InitMetadata
  \/ InitLoadFailed
  \/ InitLoaded

Spec == Init /\ [][Next]_vars

(***************************************************************************)
(* fitCalibration on its own: the function applied to pair lists of every  *)
(* length up to MaxFitPairs, well spread, degenerate (ix = iy, iy = 0) and *)
(* collapsed to one point, with and without an earlier model.              *)
(***************************************************************************)
\* pairs.length of the lists tried
MaxFitPairs == 9

GridIris ==
  << <<0, 0>>, <<1, 0>>, <<1, 1>>, <<0, 1>>, <<-1, 1>>,
     <<-1, 0>>, <<-1, -1>>, <<0, -1>>, <<1, -1>> >>

FitFamilies == {"spread", "diagonal", "row", "point", "curved", "outlier"}

\* how far the target of the fourth pair of the "outlier" family, recorded
\* during a glance away, is from where the gaze was
OutlierOffset == <<RInt(400), RInt(-300)>>

\* weights of a curved gaze-to-screen relationship, terms in the order of phi
KnownModel ==
  [wx |-> <<RInt(12), RInt(-7), RInt(5), RInt(260), RInt(-9), RInt(330)>>,
   wy |-> <<RInt(-4), RInt(15), RInt(-6), RInt(11), RInt(150), RInt(170)>>]

FamilyIris(f, i) ==
  LET g == GridIris[((i - 1) % Len(GridIris)) + 1]
  IN  CASE f = "spread"   -> g
        [] f = "curved"   -> g
        [] f = "outlier"  -> g
        [] f = "diagonal" -> <<g[1], g[1]>>
        [] f = "row"      -> <<g[1], 0>>
        [] OTHER          -> <<0, 0>>

\* the screen point a gaze at iris position g falls on when predictions are
\* off by o: the verification dots sit at iris -1, 0, 1 on each axis
GazeTarget(g, o) ==
  ScreenOf(CanvasRect, <<Frac(50 + 42 * g[1]), Frac(50 + 42 * g[2])>>)

OffsetScreen(g, o) ==
  LET c == GazeTarget(g, o)
  IN  <<RAdd(c[1], RInt(o[1])), RAdd(c[2], RInt(o[2]))>>

FitPairs(f, n, o) ==
  [i \in 1..n |->
     [iris |-> FamilyIris(f, i),
      screen |-> IF f = "curved"
                 THEN IrisToScreen(RInt(FamilyIris(f, i)[1]), RInt(FamilyIris(f, i)[2]),
                                   KnownModel, NoBias)
                 ELSE IF f = "outlier"
                 THEN IrisToScreen(RInt(FamilyIris(f, i)[1]), RInt(FamilyIris(f, i)[2]),
                                   KnownModel,
                                   IF i = 4 THEN OutlierOffset ELSE NoBias)
                 ELSE OffsetScreen(FamilyIris(f, i), o)]]

\* a model fitted earlier
PriorModel == FitCalibration(FitPairs("spread", MaxFitPairs, <<0, 0>>), NULL).calib

\* the record kept of a fitCalibration(pairs) call
FitRecord(pairs, calib) ==
  LET fit == FitCalibration(pairs, calib)
  IN  [n |-> Len(pairs), ran |-> fit.ran, ret |-> fit.ret, before |-> calib,
       after |-> fit.calib]

FitInit ==
  /\ InitRest
  /\ prevIris = NULL
  /\ calibrationProgress = RInt(-1)
  /\ lastFit = NULL
  /\ \E f \in FitFamilies, n \in 0..MaxFitPairs :
       calibrationPairs = FitPairs(f, n, <<0, 0>>)
  /\ calibData \in {NULL, PriorModel}
  /\ bias = NoBias
  /\ cameraVideo = "none"
  /\ cameraStream = FALSE
  /\ faceLandmarker = FALSE
  /\ rafId = FALSE
  /\ loops = 0
  /\ verifyStepRef = 0
  /\ verifyResiduals = <<>>
  /\ irisBuffer = <<>>
  /\ canvasRect = NULL
  /\ phase = "idle"
  /\ etSubStatus = "idle"
  /\ uploaded = FALSE

\* fitCalibration(calibrationPairsRef.current)
FitCall ==
  /\ lastFit = NULL
  /\ lastFit' = FitRecord(calibrationPairs, calibData)
  /\ calibData' = FitCalibration(calibrationPairs, calibData).calib
  /\ UNCHANGED <<bias, cameraVideo, cameraStream, faceLandmarker, rafId, loops, initPc>>
  /\ UNCHANGED <<refVars, stateVars, envVars, guardLog, memo, storedSessions>>

FitNext == FitCall

FitSpec == FitInit /\ [][FitNext]_vars

(***************************************************************************)
(* The verification pass on its own: a fitted model whose predictions are  *)
(* off by a constant offset, and a user who fixates each dot before        *)
(* clicking it.                                                            *)
(***************************************************************************)
\* offsets (px, screen coordinates: x to the right, y downwards)
VerifyOffsets == {<<ox, oy>> : ox \in {-10, 0, 10}, oy \in {-5, 0, 5}}

\* the iris position of a user looking at verification dot number step + 1
DotIris(step) ==
  <<(VERIFY_DOTS[step + 1][1] - 50) \div 42, (VERIFY_DOTS[step + 1][2] - 50) \div 42>>

\* the last VERIFY_SLICE samples were all taken while looking at the dot
Fixated ==
  /\ verifyStepRef < Len(VERIFY_DOTS)
  /\ Len(irisBuffer) >= VERIFY_SLICE
  /\ \A i \in 1..VERIFY_SLICE :
       irisBuffer[Len(irisBuffer) - i + 1] = DotIris(verifyStepRef)

VerifyInit ==
  /\ InitRest
  /\ \E o \in VerifyOffsets :
       /\ calibrationPairs = FitPairs("spread", MaxFitPairs, o)
       /\ lastFit = FitRecord(FitPairs("spread", MaxFitPairs, o), NULL)
       /\ calibData = FitCalibration(FitPairs("spread", MaxFitPairs, o), NULL).calib
  /\ irisBuffer = [i \in 1..MaxFitPairs |-> FamilyIris("spread", i)]
  /\ prevIris = FamilyIris("spread", MaxFitPairs)
  /\ calibrationProgress = Progress(NumWaypoints - 1, DWELL_MS - TickMs)
  /\ bias = NoBias
  /\ cameraVideo = "live"
  /\ cameraStream = TRUE
  /\ faceLandmarker = TRUE
  /\ rafId = TRUE
  /\ loops = 1
  /\ verifyStepRef = 0
  /\ verifyResiduals = <<>>
  /\ canvasRect = CanvasRect
  /\ phase = "calibrating"
  /\ etSubStatus = "verifying"
  /\ uploaded = TRUE

\* a display frame during verification: _loop delivers the fixating eye's sample
VerifyFrame ==
  /\ phase = "calibrating" /\ etSubStatus = "verifying"
  /\ due = NoneDue /\ TrackerDelivers
  /\ ~Fixated
  /\ now' = now + TickMs
  /\ OnIris(DotIris(verifyStepRef), now + TickMs)
  /\ rafId' = TRUE
  /\ UNCHANGED <<calibData, bias, cameraVideo, cameraStream, faceLandmarker, loops, initPc>>
  /\ UNCHANGED <<verifyStepRef, verifyResiduals, calibDotPos, calibAnim, calibAnimRunning,
                 currentVideoTime, liveGazeUpdateTimer, timers, recordingStart, calibrated,
                 canvasRect>>
  /\ UNCHANGED <<stateVars, due, lastFit, memo, storedSessions>>

\* the user clicks the dot once the gaze rests on it
VerifyClickFixated == Fixated /\ HandleVerifyClick

VerifyNext ==
  \/ VerifyFrame
  \/ VerifyClickFixated
  \/ AutoTransition

VerifySpec == VerifyInit /\ [][VerifyNext]_vars

(***************************************************************************)
(* A later session: the component after a first session was calibrated     *)
(* (predictions 10 px left of and 5 px below the targets, hence the bias   *)
(* {10, -5}), recorded, stopped and dismissed with New Session.  The       *)
(* tracker was kept alive, the model and the bias are still in place.      *)
(***************************************************************************)
EarlierOffset == <<-10, 5>>
EarlierBias == <<RInt(10), RInt(-5)>>

ResumeInit ==
  /\ initPc = "none"
  /\ oneEuro = NULL
  /\ prevIris = NULL
  /\ calibDotPos = <<Frac(50), Frac(50)>>
  /\ calibAnim = NULL
  /\ calibAnimRunning = FALSE
  /\ liveGaze = <<>>
  /\ currentVideoTime = 0
  /\ liveGazeUpdateTimer = FALSE
  /\ timers = 0
  /\ recordingStart = NULL
  /\ calibrated = TRUE
  /\ liveGazeCursor = NULL
  /\ smoothedGaze = NULL
  /\ etError = FALSE
  /\ liveGazeData = <<>>
  /\ isPlaying = FALSE
  /\ restartPending = FALSE
  /\ now = 0
  /\ due = NoneDue
  /\ guardLog = <<>>
  /\ memo = NULL
  /\ storedSessions = <<>>
  /\ calibrationProgress = Progress(NumWaypoints - 1, DWELL_MS - TickMs)
  /\ calibrationPairs = FitPairs("spread", MaxFitPairs, EarlierOffset)
  /\ lastFit = FitRecord(FitPairs("spread", MaxFitPairs, EarlierOffset), NULL)
  /\ calibData = FitCalibration(FitPairs("spread", MaxFitPairs, EarlierOffset), NULL).calib
  /\ bias = EarlierBias
  /\ cameraVideo = "live"
  /\ cameraStream = TRUE
  /\ faceLandmarker = TRUE
  /\ rafId = TRUE
  /\ loops = 1
  /\ verifyStepRef = Len(VERIFY_DOTS)
  /\ verifyResiduals = [k \in 1..Len(VERIFY_DOTS) |-> EarlierBias]
  /\ irisBuffer = [i \in 1..VERIFY_SLICE |-> DotIris(Len(VERIFY_DOTS) - 1)]
  /\ canvasRect = CanvasRect
  /\ phase = "idle"
  /\ etSubStatus = "idle"
  /\ uploaded = TRUE

\* the user keeps the video and goes through sessions; the camera and the
\* model load succeed
ResumeNext ==
  \/ DisplayFrame
  \/ LoopSample
  \/ LoopGlitch
  \/ LoopBlink
  \/ LoopNoSample
  \/ BeginCalibrationAnimation
  \/ AnimFrame
  \/ HandleVerifyClick
  \/ AutoTransition
  \/ LiveGazeTimerFires
  \/ HandleNewSession
  \/ HandleStopSession
  \/ PlaybackTick
  \/ HandleRecalibrate
  \/ HandleStartSession
  \/ InitCameraGranted
  \/ InitMetadata
  \/ InitLoaded

ResumeSpec == ResumeInit /\ [][ResumeNext]_vars

(***************************************************************************)
(* The adaptive filter on its own: a filter that has been following the    *)
(* gaze somewhere is fed one constant mapped position on every frame, at a *)
(* fixed frame period.                                                     *)
(***************************************************************************)
\* samples fed to the filter
MaxFilterSteps == 60

\* the mapped position that is fed: <<rawCx, rawCy>>
FilterTargets == { <<320, 180>>, <<40, 300>> }

\* the filter period, ms
FilterPeriods == { 33, 100 }

\* where the filter was before the constant input began: empty, at rest away
\* from the target, and moving (towards larger x, smaller y) away from it
FilterStarts ==
  { NULL,
    [x |-> RInt(100), dx |-> RZero, y |-> RInt(100), dy |-> RZero, t |-> 0],
    [x |-> RInt(500), dx |-> RInt(300), y |-> RInt(20), dy |-> RInt(-120), t |-> 0],
    [x |-> Rat(20419, 64), dx |-> RInt(40), y |-> Rat(11533, 64), dy |-> RZero, t |-> 0] }

FilterInit ==
  /\ \E c \in FilterTargets, p \in FilterPeriods :
       memo = [of |-> "filter", args |-> <<c[1], c[2], p>>, gazeData |-> <<>>, out |-> NULL]
  /\ storedSessions = <<>>
  /\ oneEuro \in FilterStarts
  /\ smoothedGaze = IF oneEuro = NULL THEN NULL ELSE <<oneEuro.x, oneEuro.y>>
  /\ liveGazeCursor = IF oneEuro = NULL THEN NULL ELSE <<RRound(oneEuro.x), RRound(oneEuro.y)>>
  /\ liveGazeData = <<>>
  /\ liveGaze = <<>>
  /\ currentVideoTime = 0
  /\ liveGazeUpdateTimer = FALSE
  /\ timers = 0
  /\ recordingStart = NULL
  /\ calibrated = TRUE
  /\ initPc = "none"
  /\ prevIris = NULL
  /\ calibDotPos = <<Frac(50), Frac(50)>>
  /\ calibAnim = NULL
  /\ calibAnimRunning = FALSE
  /\ etError = FALSE
  /\ isPlaying = FALSE
  /\ restartPending = FALSE
  /\ now = 0
  /\ due = NoneDue
  /\ guardLog = <<>>
  /\ calibrationProgress = RInt(-1)
  /\ lastFit = NULL
  /\ calibrationPairs = <<>>
  /\ calibData = NULL
  /\ bias = NoBias
  /\ cameraVideo = "none"
  /\ cameraStream = FALSE
  /\ faceLandmarker = FALSE
  /\ rafId = FALSE
  /\ loops = 0
  /\ verifyStepRef = 0
  /\ verifyResiduals = <<>>
  /\ irisBuffer = <<>>
  /\ canvasRect = NULL
  /\ phase = "idle"
  /\ etSubStatus = "ready"
  /\ uploaded = FALSE

\* the 1-euro block of the landmark callback, one period after the last sample
FilterStep ==
  /\ now < MaxFilterSteps * memo.args[3]
  /\ now' = now + memo.args[3]
  /\ \E st \in {OneEuro(oneEuro, RInt(memo.args[1]), RInt(memo.args[2]), now + memo.args[3])} :
       /\ oneEuro' = st
       /\ smoothedGaze' = <<st.x, st.y>>
       /\ liveGazeCursor' = <<RRound(st.x), RRound(st.y)>>
  /\ UNCHANGED <<prevIris, verifyStepRef, verifyResiduals, calibDotPos, calibAnim,
                 calibAnimRunning, irisBuffer, calibrationPairs, liveGaze, currentVideoTime,
                 liveGazeUpdateTimer, timers, recordingStart, calibrated, canvasRect>>
  /\ UNCHANGED <<trackerVars, stateVars, due, obsVars>>

FilterNext == FilterStep

FilterSpec == FilterInit /\ [][FilterNext]_vars

(***************************************************************************)
(* The session store on its own: files are imported into, and sessions     *)
(* deleted from, the array kept in localStorage.                           *)
(***************************************************************************)
\* sessions the store may hold
MaxStored == 4

\* most entries of an imported file
MaxFileLen == 2

\* a parsed session: id 0 stands for a missing or empty id, gazePoints tells
\* whether the field is an array
SessionObjects ==
  [id : 0..2, gazePoints : BOOLEAN, sourceVideoName : {"a", "b"}]

\* what JSON.parse(reader.result) yields: arrays of up to MaxFileLen
\* objects, or something that is not an array
ImportFiles ==
  {[array |-> FALSE, items |-> <<>>]} \cup
  { [array |-> TRUE, items |-> f] : f \in UNION { [1..n -> SessionObjects] : n \in 0..MaxFileLen } }

\* !s.id || !Array.isArray(s.gazePoints)
InvalidSession(s) == s.id = 0 \/ ~s.gazePoints

\* the promise is rejected: nothing was loaded or saved
Rejected(existing) ==
  [rejected |-> TRUE, sessions |-> <<>>, added |-> 0, total |-> 0, saved |-> existing]

\* how the promise settles (rejected, or resolved with sessions, added, total)
\* and the array in localStorage afterwards
ImportOutcome(existing, imported) ==
  IF ~imported.array THEN Rejected(existing)
  ELSE IF \E i \in 1..Len(imported.items) : InvalidSession(imported.items[i])
       THEN Rejected(existing)
       ELSE LET existingIds == { existing[i].id : i \in 1..Len(existing) }
                new == SelectSeq(imported.items, LAMBDA s : s.id \notin existingIds)
                merged == existing \o new
            IN  [rejected |-> FALSE, sessions |-> merged, added |-> Len(new),
                 total |-> Len(merged), saved |-> merged]

\* a store with one session per id, as createSession leaves it
StoreInit ==
  /\ InitRest
  /\ storedSessions \in
       { <<>>,
         << [id |-> 1, gazePoints |-> TRUE, sourceVideoName |-> "a"] >>,
         << [id |-> 2, gazePoints |-> TRUE, sourceVideoName |-> "a"],
            [id |-> 1, gazePoints |-> TRUE, sourceVideoName |-> "b"] >> }
  /\ prevIris = NULL
  /\ calibrationProgress = RInt(-1)
  /\ lastFit = NULL
  /\ calibrationPairs = <<>>
  /\ calibData = NULL
  /\ bias = NoBias
  /\ cameraVideo = "none"
  /\ cameraStream = FALSE
  /\ faceLandmarker = FALSE
  /\ rafId = FALSE
  /\ loops = 0
  /\ verifyStepRef = 0
  /\ verifyResiduals = <<>>
  /\ irisBuffer = <<>>
  /\ canvasRect = NULL
  /\ phase = "idle"
  /\ etSubStatus = "idle"
  /\ uploaded = FALSE

StoreRest == UNCHANGED <<trackerVars, refVars, stateVars, envVars, lastFit, guardLog>>

\* importSessionsJSON(file), reader.onload
ImportSessionsJSON ==
  \E imported \in ImportFiles :
    LET o == ImportOutcome(storedSessions, imported)
    IN  /\ Len(o.saved) <= MaxStored
        /\ storedSessions' = o.saved
        /\ memo' = [of |-> "import", args |-> imported, gazeData |-> <<>>, out |-> o]
        /\ StoreRest

\* deleteSession(id)
DeleteSession ==
  \E id \in 1..2 :
    /\ storedSessions' = SelectSeq(storedSessions, LAMBDA s : s.id # id)
    /\ memo' = [of |-> "delete", args |-> id, gazeData |-> <<>>, out |-> storedSessions']
    /\ StoreRest

StoreNext == ImportSessionsJSON \/ DeleteSession

StoreSpec == StoreInit /\ [][StoreNext]_vars

(***************************************************************************)
(* gazeUtils.js: the aggregations over the gaze points.  Times are in ms,  *)
(* as in the points the model records.                                     *)
(***************************************************************************)
SeqMax(f, least) ==
  IF Len(f) = 0 THEN least
  ELSE LET m == CHOOSE v \in {f[i] : i \in 1..Len(f)} : \A j \in 1..Len(f) : f[j] <= v
       IN  IF m < least THEN least ELSE m

RECURSIVE SumTo(_, _)
SumTo(f, n) == IF n = 0 THEN 0 ELSE f[n] + SumTo(f, n - 1)

\* pt.timestamp >= currentTime - windowSec / 2 && pt.timestamp <= currentTime + windowSec / 2
InWindow(pt, currentTime, windowMs) ==
  /\ 2 * pt.timestamp >= 2 * currentTime - windowMs
  /\ 2 * pt.timestamp <= 2 * currentTime + windowMs

\* Math.ceil(a / b)
Ceil(a, b) == (a + b - 1) \div b

HEAT_RADIUS == 4

\* Math.exp(-d2 / (2 * (radius / 2) ** 2)), in ten-thousandths
ExpKernel(d2) ==
  CASE d2 = 0 -> 10000 [] d2 = 1 -> 8825 [] d2 = 2 -> 7788 [] d2 = 4 -> 6065
    [] d2 = 5 -> 5353 [] d2 = 8 -> 3679 [] d2 = 9 -> 3247 [] d2 = 10 -> 2865
    [] d2 = 13 -> 1969 [] d2 = 16 -> 1353 [] d2 = 17 -> 1194 [] d2 = 18 -> 1054
    [] d2 = 20 -> 821 [] d2 = 25 -> 439 [] d2 = 32 -> 183

\* the value one point adds to cell <<nx, ny>>, 0 outside its radius
Splat(pt, nx, ny, resolution) ==
  LET dx == nx - (pt.x \div resolution)
      dy == ny - (pt.y \div resolution)
  IN  IF dx >= -HEAT_RADIUS /\ dx <= HEAT_RADIUS /\ dy >= -HEAT_RADIUS /\ dy <= HEAT_RADIUS
      THEN ExpKernel(dx * dx + dy * dy) ELSE 0

\* the value of the first cell written: a maximum search that stops at once
FirstCell(raw) == IF DOMAIN raw = {} THEN 0 ELSE raw[CHOOSE c \in DOMAIN raw : TRUE]

\* for (...) if (grid[i] > max) max = grid[i], starting from max = 0
GridMax(raw) ==
  IF DOMAIN raw = {} THEN 0
  ELSE CHOOSE v \in {raw[c] : c \in DOMAIN raw} : \A c \in DOMAIN raw : raw[c] <= v

\* computeHeatmapForFrame.  grid holds the cells some point wrote to, keyed
\* <<nx, ny>>; every other cell of the Float32Array keeps its initial 0.
\* divided tells whether the loop grid[i] /= max ran.
ComputeHeatmapForFrame(gazeData, currentTime, windowMs, width, height, resolution) ==
  LET w == Ceil(width, resolution)
      h == Ceil(height, resolution)
      hit == { i \in 1..Len(gazeData) :
                 /\ InWindow(gazeData[i], currentTime, windowMs)
                 /\ gazeData[i].x \div resolution >= 0 /\ gazeData[i].x \div resolution < w
                 /\ gazeData[i].y \div resolution >= 0 /\ gazeData[i].y \div resolution < h }
      cells == { c \in UNION { ((gazeData[i].x \div resolution - HEAT_RADIUS)
                                  ..(gazeData[i].x \div resolution + HEAT_RADIUS))
                               \X ((gazeData[i].y \div resolution - HEAT_RADIUS)
                                  ..(gazeData[i].y \div resolution + HEAT_RADIUS)) : i \in hit } :
                   c[1] >= 0 /\ c[1] < w /\ c[2] >= 0 /\ c[2] < h }
      raw == [c \in cells |->
                SumTo([i \in 1..Len(gazeData) |->
                         IF i \in hit THEN Splat(gazeData[i], c[1], c[2], resolution) ELSE 0],
                      Len(gazeData))]
      max == GridMax(raw)
  IN  [grid |-> [c \in cells |-> IF max > 0 THEN Rat(raw[c], max) ELSE RInt(raw[c])],
       w |-> w, h |-> h, resolution |-> resolution, count |-> Cardinality(hit),
       divided |-> max > 0]

\* counting every point of the set, in the window or not
PointsAtAll(gazeData, currentTime, windowMs) == 1..Len(gazeData)

\* the points computeRegionAttention counts: total++
PointsInWindow(gazeData, currentTime, windowMs) ==
  { i \in 1..Len(gazeData) : InWindow(gazeData[i], currentTime, windowMs) }

\* Math.min(gridSize - 1, Math.floor(pt.x / cellW)), cellW = width / gridSize
RegionAxis(v, extent, gridSize) ==
  IF (v * gridSize) \div extent > gridSize - 1 THEN gridSize - 1 ELSE (v * gridSize) \div extent

RegionOf(pt, width, height, gridSize) ==
  RegionAxis(pt.y, height, gridSize) * gridSize + RegionAxis(pt.x, width, gridSize)

\* .sort((a, b) => b.attention - a.attention): stable, descending
RECURSIVE SortByAttention(_)
SortByAttention(rs) ==
  IF Len(rs) <= 1 THEN rs
  ELSE LET last == rs[Len(rs)]
           init == SortByAttention(SubSeq(rs, 1, Len(rs) - 1))
           k    == Cardinality({ i \in 1..Len(init) : ~RLt(init[i].attention, last.attention) })
       IN  SubSeq(init, 1, k) \o <<last>> \o SubSeq(init, k + 1, Len(init))

\* computeRegionAttention.  divided tells whether c / total was evaluated.
ComputeRegionAttention(gazeData, currentTime, windowMs, width, height, gridSize) ==
  LET inWin == { i \in 1..Len(gazeData) : InWindow(gazeData[i], currentTime, windowMs) }
      total == Cardinality(PointsInWindow(gazeData, currentTime, windowMs))
      counts == [r \in 0..(gridSize * gridSize - 1) |->
                   Cardinality({ i \in inWin : RegionOf(gazeData[i], width, height, gridSize) = r })]
  IN  [regions |-> SortByAttention(
                     [k \in 1..(gridSize * gridSize) |->
                        [attention |-> IF total > 0 THEN Rat(counts[k - 1] * 100, total) ELSE RZero,
                         row |-> (k - 1) \div gridSize, col |-> (k - 1) % gridSize]]),
       total |-> total, divided |-> total > 0]

BUCKET_MS == 500

\* computeAttentionTimeline(gazeData, duration, bucketSec = 0.5); each bucket
\* is shown with the count its intensity was computed from
ComputeAttentionTimeline(gazeData, duration, bucketMs) ==
  LET n == Ceil(duration, bucketMs)
      count == [k \in 1..n |->
                  Cardinality({ i \in 1..Len(gazeData) :
                                  /\ gazeData[i].timestamp >= (k - 1) * bucketMs
                                  /\ gazeData[i].timestamp < k * bucketMs })]
      max == SeqMax(count, 1)
  IN  [k \in 1..n |-> [time |-> (k - 1) * bucketMs, count |-> count[k],
                       intensity |-> RRound(Rat(count[k] * 100, max))]]

EXPECTED_GAZE_HZ == 12

\* filing a point under the playback time of the video
BucketByVideoTime(pt) == pt.timestamp

\* the time a bucket of the wall-clock timeline files a point under
BucketClock(pt) == pt.wallTime

\* the timeline useMemo of the component and of ReportPage, wallTime branch:
\* count / (EXPECTED_GAZE_HZ * BUCKET_SEC) * 100, rounded, at most 100
WallTimeline(gazeData, bucketMs, hz) ==
  IF Len(gazeData) = 0 THEN <<>>
  ELSE LET maxT == SeqMax([i \in 1..Len(gazeData) |-> gazeData[i].wallTime], 0)
           n == (maxT \div bucketMs) + 1
           count == [k \in 1..n |->
                       Cardinality({ i \in 1..Len(gazeData) :
                                       /\ BucketClock(gazeData[i]) >= (k - 1) * bucketMs
                                       /\ BucketClock(gazeData[i]) < k * bucketMs })]
       IN  [k \in 1..n |->
              [time |-> (k - 1) * bucketMs, count |-> count[k],
               intensity |-> LET v == RRound(Rat(count[k] * 100 * 1000, hz * bucketMs))
                             IN  IF v > 100 THEN 100 ELSE v]]

\* ReportPage: gazeData.map(p => ({ ...p, timestamp: p.wallTime ?? p.timestamp }))
Remapped(gazeData) ==
  [i \in 1..Len(gazeData) |-> [gazeData[i] EXCEPT !.timestamp = gazeData[i].wallTime]]

(***************************************************************************)
(* The aggregations on their own: the gaze points of a finished recording  *)
(* are handed to the timeline, region and heatmap computations of the      *)
(* component and of the report page.                                       *)
(***************************************************************************)
\* most points a pool point is repeated
MaxBurst == 7

\* n callbacks that pushed the same point
Burst(pt, n) == [i \in 1..n |-> pt]

\* recordings made of three points, each pushed 0, 1, MaxBurst or twice
\* MaxBurst times: the frame's top-left corner at the start; its bottom-right
\* edge 600 ms later with the video still at 0; its centre at video time 700
GazeInputs ==
  LET first == GazePoint(RInt(0), RInt(0), 0, <<0>>, 0)
      edge  == GazePoint(Rat(6396, 10), Rat(3596, 10), 0, <<0>>, 600)
      late  == GazePoint(RInt(320), RInt(180), 700, <<0>>, 1700)
      copies == {0, 1, MaxBurst, 2 * MaxBurst}
  IN  { Burst(first, a) \o Burst(edge, b) \o Burst(late, c) : a, b, c \in copies }

\* currentTime and windowSize (ms) of the component
QueryTimes == {0, 1000}
QueryWindows == {500, 2000}

REGION_GRID == 4
HEAT_RESOLUTION == 4

\* the state after handleStopSession: the snapshot holds the recording
ReviewInit ==
  /\ \E g \in GazeInputs :
       /\ liveGazeData = g
       /\ liveGaze = g
       /\ currentVideoTime = 0
       /\ liveGazeUpdateTimer = FALSE
       /\ timers = 0
       /\ recordingStart = NULL
       /\ calibrated = FALSE
       /\ liveGazeCursor = NULL
       /\ smoothedGaze = NULL
  /\ initPc = "none"
  /\ oneEuro = NULL
  /\ prevIris = NULL
  /\ calibDotPos = <<Frac(50), Frac(50)>>
  /\ calibAnim = NULL
  /\ calibAnimRunning = FALSE
  /\ etError = FALSE
  /\ isPlaying = FALSE
  /\ restartPending = FALSE
  /\ now = 0
  /\ due = NoneDue
  /\ guardLog = <<>>
  /\ memo = NULL
  /\ storedSessions = <<>>
  /\ calibrationProgress = RInt(-1)
  /\ lastFit = NULL
  /\ calibrationPairs = <<>>
  /\ calibData = NULL
  /\ bias = NoBias
  /\ cameraVideo = "none"
  /\ cameraStream = FALSE
  /\ faceLandmarker = FALSE
  /\ rafId = FALSE
  /\ loops = 0
  /\ verifyStepRef = 0
  /\ verifyResiduals = <<>>
  /\ irisBuffer = <<>>
  /\ canvasRect = NULL
  /\ phase = "review"
  /\ etSubStatus = "idle"
  /\ uploaded = TRUE

\* an aggregation reads the snapshot and returns a new value
Memoize(name, args, out) ==
  /\ memo' = [of |-> name, args |-> args, gazeData |-> liveGazeData, out |-> out]
  /\ UNCHANGED <<trackerVars, refVars, stateVars, envVars, lastFit, guardLog, storedSessions>>

\* the timeline useMemo of the component
TimelineMemo ==
  Memoize("timeline", <<>>, WallTimeline(liveGazeData, BUCKET_MS, EXPECTED_GAZE_HZ))

\* the timeline useMemo of ReportPage
ReportTimelineMemo ==
  Memoize("report-timeline", <<>>, WallTimeline(liveGazeData, BUCKET_MS, EXPECTED_GAZE_HZ))

\* computeAttentionTimeline(activeGazeData, duration)
AttentionTimelineMemo ==
  \E duration \in {1000, 2000} :
    Memoize("attention-timeline", <<duration>>,
            ComputeAttentionTimeline(liveGazeData, duration, BUCKET_MS))

\* the regions useMemo of the component
RegionsMemo ==
  \E currentTime \in QueryTimes, windowMs \in QueryWindows :
    Memoize("regions", <<currentTime, windowMs>>,
            IF Len(liveGazeData) > 0
            THEN ComputeRegionAttention(liveGazeData, currentTime, windowMs,
                                        VIDEO_W, VIDEO_H, REGION_GRID)
            ELSE [regions |-> <<>>, total |-> 0, divided |-> FALSE])

\* the regions useMemo of ReportPage: the window spans every wallTime
ReportRegionsMemo ==
  LET remapped == Remapped(liveGazeData)
      maxW == SeqMax([i \in 1..Len(remapped) |-> remapped[i].timestamp], 0)
  IN  Memoize("report-regions", <<maxW \div 2, maxW + 1000>>,
              IF Len(liveGazeData) = 0
              THEN [regions |-> <<>>, total |-> 0, divided |-> FALSE]
              ELSE ComputeRegionAttention(remapped, maxW \div 2, maxW + 1000,
                                          VIDEO_W, VIDEO_H, REGION_GRID))

\* a rollup that puts the third row and column with the first two
QuadrantKeyOfThree(r) == <<r.row < 3, r.col < 3>>

\* `${r.row < 2 ? "Top" : "Bottom"}-${r.col < 2 ? "Left" : "Right"}`
QuadrantKey(r) == <<r.row < 2, r.col < 2>>

\* +value.toFixed(1): the nearest tenth, ties to the larger one
ToFixed1(v) == Rat(RRound(RMul(v, RInt(10))), 10)

\* the quadrants useMemo of ReportPage, in the order of the keys of q
Quadrants(regions) ==
  LET keys == << <<TRUE, TRUE>>, <<TRUE, FALSE>>, <<FALSE, TRUE>>, <<FALSE, FALSE>> >>
      q == [k \in 1..4 |->
              RSum([i \in 1..Len(regions) |->
                      IF QuadrantKey(regions[i]) = keys[k] THEN regions[i].attention
                      ELSE RZero])]
  IN  [k \in 1..4 |-> [top |-> keys[k][1], left |-> keys[k][2], value |-> ToFixed1(q[k])]]

\* the regions and quadrants useMemos of ReportPage, one after the other
ReportQuadrantsMemo ==
  LET remapped == Remapped(liveGazeData)
      maxW == SeqMax([i \in 1..Len(remapped) |-> remapped[i].timestamp], 0)
      regions == IF Len(liveGazeData) = 0 THEN <<>>
                 ELSE ComputeRegionAttention(remapped, maxW \div 2, maxW + 1000,
                                             VIDEO_W, VIDEO_H, REGION_GRID).regions
  IN  Memoize("report-quadrants", <<maxW \div 2, maxW + 1000>>,
              [regions |-> regions, quadrants |-> Quadrants(regions)])

\* renderCanvas: the heatmap overlay
HeatmapMemo ==
  /\ Len(liveGazeData) > 0
  /\ \E currentTime \in QueryTimes, windowMs \in QueryWindows :
       Memoize("heatmap", <<currentTime, windowMs>>,
               ComputeHeatmapForFrame(liveGazeData, currentTime, windowMs,
                                      VIDEO_W, VIDEO_H, HEAT_RESOLUTION))

\* .sort((a, b) => (a.row * 4 + a.col) - (b.row * 4 + b.col)): stable, ascending
RECURSIVE SortByPosition(_)
SortByPosition(rs) ==
  IF Len(rs) <= 1 THEN rs
  ELSE LET last == rs[Len(rs)]
           init == SortByPosition(SubSeq(rs, 1, Len(rs) - 1))
           k    == Cardinality({ i \in 1..Len(init) :
                                   init[i].row * 4 + init[i].col <= last.row * 4 + last.col })
       IN  SubSeq(init, 1, k) \o <<last>> \o SubSeq(init, k + 1, Len(init))

\* regions.slice(0, 8)
Slice8(rs) == SubSeq(rs, 1, IF Len(rs) < 8 THEN Len(rs) ELSE 8)

\* one render of ReportPage: the regions useMemo, then the JSX from top to
\* bottom: the 4x4 grid sorts the regions array in place, the hotspot insight
\* reads regions[0] and the bar chart regions.slice(0, 8) of the same array
ReportRender ==
  LET remapped == Remapped(liveGazeData)
      maxW == SeqMax([i \in 1..Len(remapped) |-> remapped[i].timestamp], 0)
      computed == IF Len(liveGazeData) = 0 THEN <<>>
                  ELSE ComputeRegionAttention(remapped, maxW \div 2, maxW + 1000,
                                              VIDEO_W, VIDEO_H, REGION_GRID).regions
      regions == SortByPosition(computed)
  IN  Memoize("report-render", <<maxW \div 2, maxW + 1000>>,
              [regions |-> regions,
               hotspot |-> IF Len(regions) > 0 THEN <<regions[1]>> ELSE <<>>,
               top |-> Slice8(regions)])

ReviewNext ==
  \/ ReportRender
  \/ TimelineMemo
  \/ ReportTimelineMemo
  \/ AttentionTimelineMemo
  \/ RegionsMemo
  \/ ReportRegionsMemo
  \/ ReportQuadrantsMemo
  \/ HeatmapMemo

ReviewSpec == ReviewInit /\ [][ReviewNext]_vars

(***************************************************************************)
(* Properties                                                              *)
(***************************************************************************)
\* a step in which _loop calls the landmark callback with this frame's sample
CallbackStep ==
  /\ due'.loop < due.loop
  /\ TrackerDelivers
  /\ FrameAt(now).kind # BLINK

\* C1 (Outlier Guard): a sample further than 0.2 from the stored previous
\* sample replaces the stored previous sample and changes nothing downstream
\* (iris buffer, pair accumulator, filter state, gaze cursor, gaze points);
\* a sample within 0.2 of the stored previous sample - in particular of a
\* sample that was just rejected - is accepted: it ends the iris buffer and,
\* once a model exists, it is filtered at the current time.
C1_OutlierGuard ==
  [][CallbackStep =>
       LET s == FrameAt(now).iris
       IN  /\ prevIris' = s
           /\ IF prevIris # NULL /\ DistSq(s, prevIris) > JUMP_THRESH * JUMP_THRESH
              THEN UNCHANGED <<irisBuffer, calibrationPairs, oneEuro, liveGazeCursor,
                               smoothedGaze, liveGaze>>
              ELSE /\ irisBuffer' # <<>>
                   /\ irisBuffer'[Len(irisBuffer')] = s
                   /\ Len(irisBuffer') = IF Len(irisBuffer) < IRIS_BUFFER_MAX
                                         THEN Len(irisBuffer) + 1 ELSE IRIS_BUFFER_MAX
                   /\ calibData # NULL =>
                        /\ oneEuro' # NULL /\ oneEuro'.t = now
                        /\ liveGazeCursor' # NULL]_vars

\* C1 witness: a glitch sample was rejected and the next sample, within 0.2
\* of the rejected one, was accepted into the buffer
C1_Witness ==
  /\ guardLog = <<"rejected", "accepted">>
  /\ prevIris = <<1, 1>>
  /\ irisBuffer # <<>>
  /\ irisBuffer[Len(irisBuffer)] = <<1, 1>>

C3_CancelKeepsModel ==
  [][/\ (HandleNewSession =>
           /\ calibrationPairs' = <<>>
           /\ phase' = "idle"
           /\ calibData' = calibData
           /\ bias' = bias)
     /\ (HandleRecalibrate \/ HandleStartSession =>
           /\ calibData' = calibData
           /\ bias' = bias)]_vars

\* what fitCalibration returns to its caller when the fit succeeds
ReturnOfSuccessfulFit ==
  FitCalibration(FitPairs("spread", MinPairs, <<0, 0>>), NULL).ret

\* what fitCalibration returns to its caller when it has too few pairs
ReturnOfInsufficientData ==
  FitCalibration(<<>>, NULL).ret

\* C4: fitCalibration with fewer than 7 pairs leaves the model unchanged and
\* returns something that differs from what a successful fit returns
C4_TooFewPairsReported ==
  (lastFit # NULL /\ lastFit.n < MinPairs) =>
     /\ lastFit.after = lastFit.before
     /\ calibData = lastFit.before
     /\ lastFit.ret # ReturnOfSuccessfulFit

\* C5: on a singular system the fit keeps the previous model and returns
\* something that differs both from the return of a successful fit and from
\* the return for insufficient data
C5_SingularReported ==
  (lastFit # NULL /\ lastFit.ran = "singular") =>
     /\ lastFit.after = lastFit.before
     /\ calibData = lastFit.before
     /\ lastFit.ret # ReturnOfSuccessfulFit
     /\ lastFit.ret # ReturnOfInsufficientData

\* C6: a gaze point is appended to the recorded sequence only while the phase
\* is RECORDING
C6_GazeOnlyWhileRecording ==
  [][Len(liveGaze') > Len(liveGaze) => phase = "recording"]_vars

\* C7: whenever the phase becomes RECORDING the filter state is fresh (none)
C7_FreshFilterAtRecordingStart ==
  [][(phase # "recording" /\ phase' = "recording") => oneEuro' = NULL]_vars

\* a handler that stops or cancels the calibration or recording in progress
StopOrCancel ==
  /\ phase \in {"calibrating", "recording"}
  /\ \/ HandleNewSession
     \/ HandleFileUpload
     \/ ClearUploadedVideo
     \/ HandleStopSession
     \/ HandleVideoEnded

\* C8: when a session is stopped or cancelled, the filter state and the
\* previous-sample memory are both reset, unless no detection loop is left
\* that could deliver a further sample
C8_ResetOnStopOrCancel ==
  [][StopOrCancel =>
       \/ oneEuro' = NULL /\ prevIris' = NULL
       \/ ~(loops' > 0 /\ cameraVideo' = "live" /\ faceLandmarker')]_vars

\* the screen position of verification dot number k
VerifyTarget(k) ==
  ScreenOf(CanvasRect, <<Frac(VERIFY_DOTS[k][1]), Frac(VERIFY_DOTS[k][2])>>)

\* C9: the click on the last verification dot sets the bias to the per-axis
\* arithmetic mean of the residuals of this pass (each a target minus a
\* prediction, at most one per dot), and leaves it alone when there is none
C9_BiasIsMeanResidual ==
  [][(HandleVerifyClick /\ verifyStepRef' = Len(VERIFY_DOTS)) =>
       LET res == verifyResiduals'
           n   == Len(res)
       IN  /\ n <= Len(VERIFY_DOTS)
           /\ IF n = 0
              THEN bias' = bias
              ELSE /\ RMul(bias'[1], RInt(n)) = RSum([i \in 1..n |-> res[i][1]])
                   /\ RMul(bias'[2], RInt(n)) = RSum([i \in 1..n |-> res[i][2]])
           /\ n > Len(verifyResiduals) =>
                LET pred == IrisToScreen(MeanOf(LastN(irisBuffer, VERIFY_SLICE), 1),
                                         MeanOf(LastN(irisBuffer, VERIFY_SLICE), 2),
                                         calibData, bias)
                    tgt  == VerifyTarget(Len(VERIFY_DOTS))
                IN  res[n] = <<RSub(tgt[1], pred[1]), RSub(tgt[2], pred[2])>>]_vars

\* C9 witness: a pass is complete, it recorded residuals that are not all
\* the same, and the bias has been set
C9_Witness ==
  /\ etSubStatus = "ready"
  /\ verifyStepRef = Len(VERIFY_DOTS)
  /\ Len(verifyResiduals) >= 2
  /\ verifyResiduals[1] # verifyResiduals[2]
  /\ bias # NoBias

\* every dot's prediction (bias not yet applied) lies 10 px to the left of
\* and 5 px below its target: screen y grows downwards
PredictsLeftAndDown ==
  /\ calibData # NULL
  /\ \A k \in 1..Len(VERIFY_DOTS) :
       LET g == DotIris(k - 1)
       IN  IrisToScreen(RInt(g[1]), RInt(g[2]), calibData, NoBias)
             = <<RSub(VerifyTarget(k)[1], RInt(10)), RAdd(VerifyTarget(k)[2], RInt(5))>>

OffsetPassDone ==
  /\ verifyStepRef = Len(VERIFY_DOTS)
  /\ Len(verifyResiduals) = Len(VERIFY_DOTS)
  /\ PredictsLeftAndDown

\* C10 (as amended): a 5-point pass whose predictions are all 10 px left of
\* and 5 px below their targets yields the bias {dx: 10, dy: -5}
C10_OffsetPassBias ==
  OffsetPassDone => bias = <<RInt(10), RInt(-5)>>

\* C10 (as claimed): such a pass yields the bias {dx: 10, dy: 5}
C10_AsClaimed ==
  OffsetPassDone => bias = <<RInt(10), RInt(5)>>

\* C10 witness: such a pass has been completed
C10_Witness ==
  /\ OffsetPassDone
  /\ etSubStatus = "ready"

\* the session is in the verification pass
Verifying == phase = "calibrating" /\ etSubStatus = "verifying"

\* C11: whenever the session is verifying the bias is {0, 0}, so no residual
\* includes the bias of an earlier calibration
C11_NoBiasWhileVerifying ==
  Verifying => bias = <<RZero, RZero>>

\* C11 witness: in a session that started with the bias of an earlier
\* calibration in place, a residual has been recorded in the verification
\* pass of a new calibration
C11_Witness ==
  /\ Verifying
  /\ verifyStepRef >= 1
  /\ Len(verifyResiduals) >= 1
  /\ lastFit # NULL /\ lastFit.before = NULL /\ lastFit.ran = "fitted"

ProgressReported == calibAnim # NULL /\ calibAnim' # NULL /\ calibrationProgress' # calibrationProgress

\* C13: the progress a frame of a calibration run reports lies in [0, 1] and
\* is never smaller than the progress an earlier frame of the same run
\* reported, the frames that end a dwell or a transit included
C13_ProgressMonotonic ==
  [][ProgressReported =>
       /\ RLe(RZero, calibrationProgress') /\ RLe(calibrationProgress', RInt(1))
       /\ (calibAnim.phaseName = "transit" \/ calibAnim.wpIdx >= 1) =>
            RLe(calibrationProgress, calibrationProgress')]_vars

\* the points of a were pushed, in this order and unchanged, before those b adds
IsPrefix(a, b) == Len(a) <= Len(b) /\ \A i \in 1..Len(a) : b[i] = a[i]

\* the session is recording
Recording == phase = "recording"

\* the wallTime of the points never decreases along the sequence
WallTimeOrdered(g) == \A i \in 1..Len(g) : \A j \in i..Len(g) : g[i].wallTime <= g[j].wallTime

\* C14: while a recording lasts the gaze point sequence only grows at its
\* end, every point already in it staying where and what it was; the
\* snapshot handed to the aggregations is a copy of a prefix of it; and the
\* wallTime of its points is non-decreasing
C14_AppendOnly ==
  [][(Recording /\ Recording') =>
       /\ IsPrefix(liveGaze, liveGaze')
       /\ Len(liveGaze') <= Len(liveGaze) + 1
       /\ IsPrefix(liveGazeData', liveGaze')
       /\ WallTimeOrdered(liveGaze')]_vars

\* C14 witness: a recording holds several points, the snapshot has been
\* taken and a point has been appended since, with a later wallTime
C14_Witness ==
  /\ Recording
  /\ Len(liveGazeData) >= 1
  /\ Len(liveGaze) > Len(liveGazeData)
  /\ liveGaze[Len(liveGaze)].wallTime > liveGaze[1].wallTime

\* a region computation has returned
RegionsReturned == memo # NULL /\ memo.of \in {"regions", "report-regions"} /\ Len(memo.gazeData) > 0

\* the point set the region computation was called on
RegionsInput == IF memo.of = "report-regions" THEN Remapped(memo.gazeData) ELSE memo.gazeData

\* the points of that set the queried window contains
RegionsWindow == { i \in 1..Len(RegionsInput) : InWindow(RegionsInput[i], memo.args[1], memo.args[2]) }

\* the attention of all regions together
AttentionSum == RSum([k \in 1..Len(memo.out.regions) |-> memo.out.regions[k].attention])

\* C15: computeRegionAttention returns one entry per region; when the window
\* contains a point the attentions sum to 100, and when it contains none
\* every attention is 0 and c / total is not evaluated
C15_RegionsSumTo100 ==
  RegionsReturned =>
    /\ Len(memo.out.regions) = REGION_GRID * REGION_GRID
    /\ IF RegionsWindow # {}
       THEN RLe(AttentionSum, RInt(100)) /\ RLe(RInt(100), AttentionSum)
       ELSE /\ \A k \in 1..Len(memo.out.regions) : memo.out.regions[k].attention = RZero
            /\ ~memo.out.divided

\* C15 witness: the window holds some of the points, not all, and they lie
\* in different regions
C15_Witness ==
  /\ RegionsReturned
  /\ memo.of = "regions"
  /\ RegionsWindow # {}
  /\ Cardinality(RegionsWindow) < Len(memo.gazeData)
  /\ \E k \in 1..Len(memo.out.regions) :
       /\ RLt(RZero, memo.out.regions[k].attention)
       /\ RLt(memo.out.regions[k].attention, RInt(100))

\* the heatmap computation has returned
HeatmapReturned == memo # NULL /\ memo.of = "heatmap"

\* the largest value among the cells the computation wrote to
HeatMax ==
  CHOOSE v \in {memo.out.grid[c] : c \in DOMAIN memo.out.grid} :
    \A c \in DOMAIN memo.out.grid : RLe(memo.out.grid[c], v)

\* C16: a heatmap grid with a nonzero cell has maximum exactly 1 and all its
\* cells in [0, 1]; when no point of the window falls inside the grid no
\* cell is written, the grid stays all zero and grid[i] /= max does not run
C16_HeatmapNormalised ==
  HeatmapReturned =>
    IF \E i \in 1..Len(memo.gazeData) :
         /\ InWindow(memo.gazeData[i], memo.args[1], memo.args[2])
         /\ memo.gazeData[i].x < VIDEO_W /\ memo.gazeData[i].y < VIDEO_H
    THEN /\ memo.out.divided
         /\ HeatMax = RInt(1)
         /\ \A c \in DOMAIN memo.out.grid :
              RLe(RZero, memo.out.grid[c]) /\ RLe(memo.out.grid[c], RInt(1))
    ELSE /\ ~memo.out.divided
         /\ \A c \in DOMAIN memo.out.grid : memo.out.grid[c] = RZero
         /\ memo.out.count = 0

\* C16 witness: several points of the window were added into overlapping
\* cells, so that the largest raw cell value was above 1, and cells below
\* the maximum remain
C16_Witness ==
  /\ HeatmapReturned
  /\ memo.out.count >= 2
  /\ memo.out.count < Len(memo.gazeData)
  /\ HeatMax = RInt(1)
  /\ \E c \in DOMAIN memo.out.grid :
       RLt(RZero, memo.out.grid[c]) /\ RLt(memo.out.grid[c], RInt(1))

\* a timeline computation has returned
TimelineReturned ==
  memo # NULL /\ memo.of \in {"timeline", "report-timeline", "attention-timeline"}

\* count / (EXPECTED_GAZE_HZ * BUCKET_SEC) * 100, rounded and capped at 100
ExpectedRateIntensity(count) ==
  LET v == RRound(Rat(count * 100 * 1000, EXPECTED_GAZE_HZ * BUCKET_MS))
  IN  IF v > 100 THEN 100 ELSE v

\* C17: every bucket of a timeline reports its count against the expected
\* count (EXPECTED_GAZE_HZ points per second times the bucket width) as a
\* percentage capped at 100: an integer in 0..100, exactly 100 when the count
\* exceeds the expected count; and no point is counted in two buckets
C17_TimelineIntensity ==
  TimelineReturned =>
    /\ \A k \in 1..Len(memo.out) :
         /\ memo.out[k].intensity \in 0..100
         /\ memo.out[k].intensity = ExpectedRateIntensity(memo.out[k].count)
         /\ (memo.out[k].count * 1000 > EXPECTED_GAZE_HZ * BUCKET_MS) =>
              memo.out[k].intensity = 100
    /\ SumTo([k \in 1..Len(memo.out) |-> memo.out[k].count], Len(memo.out)) <= Len(memo.gazeData)

\* the component's timeline of a recording has been computed
LiveTimelineReturned == memo # NULL /\ memo.of = "timeline"

\* the bucket, counted from 1, that holds wall-clock time t
WallBucket(t) == (t \div BUCKET_MS) + 1

C19_UnavailableWithoutModel ==
  [][/\ (lastFit = NULL) => calibData = NULL
     /\ (faceLandmarker /\ ~faceLandmarker') => calibData' = NULL
     /\ (phase # "calibrating" /\ phase' = "calibrating") => calibData' = NULL
     /\ CallbackStep =>
          LET s == FrameAt(now).iris
              pt == IrisToScreen(RInt(s[1]), RInt(s[2]), calibData, bias)
              poly == IrisToScreen(RInt(s[1]), RInt(s[2]), calibData, <<RZero, RZero>>)
          IN  /\ (pt = NULL) <=> (calibData = NULL)
              /\ (calibData = NULL) =>
                   UNCHANGED <<oneEuro, smoothedGaze, liveGazeCursor, liveGaze>>
              /\ (calibData # NULL) =>
                   /\ pt = <<RAdd(poly[1], bias[1]), RAdd(poly[2], bias[2])>>
                   /\ (guardLog'[Len(guardLog')] = "accepted") =>
                        /\ oneEuro' # NULL /\ oneEuro'.t = now
                        /\ smoothedGaze' = <<oneEuro'.x, oneEuro'.y>>
                        /\ liveGazeCursor' # NULL]_vars

\* C19 witness: callbacks have run without a model - a sample was accepted
\* and a calibration pair recorded - and the filter state, the cursor and
\* the gaze points are still empty
C19_Witness ==
  /\ calibData = NULL
  /\ guardLog # <<>> /\ guardLog[Len(guardLog)] = "accepted"
  /\ Len(calibrationPairs) >= 1
  /\ oneEuro = NULL /\ liveGazeCursor = NULL /\ smoothedGaze = NULL /\ liveGaze = <<>>

\* an iteration of _loop ran detectForVideo on a frame in which, whatever the
\* landmarks show, the eyelid height of an eye is below 0.15 of its width
BlinkFrameStep ==
  /\ due'.loop < due.loop
  /\ TrackerDelivers
  /\ \A r \in EyeRatios(FrameAt(now)) : r[1] < 15 \/ r[2] < 15

\* C20: a blink or squint frame emits no sample: the previous sample of the
\* outlier guard, the iris buffer, the pair accumulator, the filter state,
\* the cursor and the gaze points are what they were before the frame
C20_BlinkChangesNothing ==
  [][BlinkFrameStep =>
       /\ UNCHANGED <<prevIris, irisBuffer, calibrationPairs, oneEuro>>
       /\ UNCHANGED <<smoothedGaze, liveGazeCursor, liveGaze, guardLog>>]_vars

\* C20 witness: a blink frame has gone by in a session that has a previous
\* sample, a filled buffer, pairs, a filter state and gaze points, and the
\* previous sample and the filter state are still those of the frame before
C20_Witness ==
  /\ FrameAt(now).kind = BLINK
  /\ due = NoneDue
  /\ TrackerDelivers
  /\ FrameAt(now - TickMs).kind = OPEN
  /\ prevIris = FrameAt(now - TickMs).iris
  /\ oneEuro # NULL /\ oneEuro.t = now - TickMs
  /\ Len(calibrationPairs) >= 1
  /\ irisBuffer # <<>>
  /\ liveGaze # <<>>

\* initEyeTracker has thrown and the catch block of handleStartSession ran
AcquisitionFailed == ~etError /\ etError'

\* C21: when starting the landmark provider fails the error is surfaced, the
\* session is back in Idle, and nothing of the tracker remains allocated: no
\* camera element, no stream, no landmarker, no detection loop
C21_FailureLeavesNothing ==
  [][AcquisitionFailed =>
       /\ phase' = "idle" /\ etSubStatus' = "idle"
       /\ cameraVideo' = "none"
       /\ ~cameraStream'
       /\ ~faceLandmarker'
       /\ loops' = 0 /\ ~rafId']_vars

\* the timeouts, effects and promise continuations that run without the user
PendingContinuation ==
  RestartFires \/ AutoTransition \/ InitCameraGranted \/ InitMetadata \/ InitLoaded

\* C22: no session state is a dead end.  A pending continuation can run; and
\* once the user can act, a calibrating session (in any sub-state) offers
\* Cancel, a recording one Stop, a review Restart, each leading towards Idle;
\* in Idle with a video a calibrated session (also one whose start skipped the
\* calibration) offers Recalibrate and an uncalibrated one Start Session,
\* which begins a fresh calibration
C22_NoDeadEnd ==
  /\ (due = NoneDue /\ EffectPending /\ timers < MaxTimers) => ENABLED AutoTransition
  /\ (due = NoneDue /\ restartPending /\ timers < MaxTimers /\ initPc = "none") =>
       ENABLED RestartFires
  /\ (due = NoneDue /\ initPc # "none" /\ loops < MaxLoops) => ENABLED PendingContinuation
  /\ (UserCanAct /\ phase = "calibrating") => ENABLED (HandleNewSession /\ phase' = "idle")
  /\ (UserCanAct /\ phase = "recording") => ENABLED (HandleStopSession /\ phase' = "review")
  /\ (UserCanAct /\ phase = "review") => ENABLED (Restart /\ phase' = "idle")
  /\ (UserCanAct /\ phase = "idle" /\ uploaded /\ calibrated) =>
       ENABLED (HandleRecalibrate /\ ~calibrated' /\ phase' = "idle")
  /\ (UserCanAct /\ phase = "idle" /\ uploaded /\ ~calibrated /\ initPc = "none") =>
       ENABLED (HandleStartSession /\ phase' = "calibrating" /\ calibData' = NULL)

\* a calibration that was cancelled, started afresh from Idle and completed:
\* the second detection loop only exists after a second start
C22_Witness ==
  calibrated /\ phase = "recording" /\ loops = 2 /\ lastFit # NULL /\ lastFit.before = NULL

\* the quadrant rollup of the report has been computed
QuadrantsReturned == memo # NULL /\ memo.of = "report-quadrants"

\* the four 2x2 sub-blocks of the 4x4 grid, as sets of <<row, col>>
SubBlock(top, left) ==
  (IF top THEN {0, 1} ELSE {2, 3}) \X (IF left THEN {0, 1} ELSE {2, 3})

\* the share (in percent) of the recorded points that lie in a quarter of the frame
QuarterShare(top, left) ==
  LET g == memo.gazeData
      inQuarter == { i \in 1..Len(g) : /\ (2 * g[i].y < VIDEO_H) = top
                                       /\ (2 * g[i].x < VIDEO_W) = left }
  IN  IF Len(g) = 0 THEN RZero ELSE Rat(100 * Cardinality(inQuarter), Len(g))

\* the four quadrant values together
QuadrantSum == RSum([k \in 1..4 |-> memo.out.quadrants[k].value])

\* C23: each quadrant value is the sum of the attentions of one 2x2 sub-block
\* of the 4x4 grid, which is the share of the points in that quarter of the
\* frame; every region lies in exactly one sub-block; and the four values add
\* up to the sum of the region attentions (100 when there are points), up to
\* the rounding of each value to a tenth
C23_QuadrantsAreSubBlocks ==
  QuadrantsReturned =>
    LET rs == memo.out.regions
        qs == memo.out.quadrants
        all == RSum([i \in 1..Len(rs) |-> rs[i].attention])
    IN  /\ Len(qs) = 4
        /\ \A k \in 1..4 :
             /\ qs[k].value =
                  ToFixed1(RSum([i \in 1..Len(rs) |->
                                   IF <<rs[i].row, rs[i].col>> \in SubBlock(qs[k].top, qs[k].left)
                                   THEN rs[i].attention ELSE RZero]))
             /\ qs[k].value = ToFixed1(QuarterShare(qs[k].top, qs[k].left))
        /\ \A i \in 1..Len(rs) :
             Cardinality({ k \in 1..4 :
                             <<rs[i].row, rs[i].col>> \in SubBlock(qs[k].top, qs[k].left) }) = 1
        /\ RLe(RAbs(RSub(QuadrantSum, all)), Rat(2, 10))
        /\ (Len(memo.gazeData) > 0) => RLe(RAbs(RSub(QuadrantSum, RInt(100))), Rat(2, 10))

\* C23 witness: points in two quadrants, in three regions, with values that
\* are not whole tenths before the rounding
C23_Witness ==
  /\ QuadrantsReturned
  /\ Cardinality({ k \in 1..4 : RLt(RZero, memo.out.quadrants[k].value) }) = 2
  /\ Cardinality({ i \in 1..Len(memo.out.regions) :
                     RLt(RZero, memo.out.regions[i].attention) }) = 3
  /\ \E k \in 1..4 :
       memo.out.quadrants[k].value # QuarterShare(memo.out.quadrants[k].top,
                                                  memo.out.quadrants[k].left)

\* a sample went through the filter while oneEuroRef.current was empty
FirstFiltered == oneEuro = NULL /\ oneEuro' # NULL

\* the prediction for the accepted iris position, mapped to video coordinates
RawMapped ==
  LET screenPt == IrisToScreen(RInt(prevIris'[1]), RInt(prevIris'[2]), calibData, bias)
  IN  <<Q64(RMul(RSub(screenPt[1], RInt(CanvasRect.left)), Rat(VIDEO_W, CanvasRect.width))),
        Q64(RMul(RSub(screenPt[2], RInt(CanvasRect.top)), Rat(VIDEO_H, CanvasRect.height)))>>

\* C24: on the first sample of an empty filter the output is the raw mapped
\* input on both axes, the stored velocity is 0 on both axes, and the time of
\* the sample is stored
C24_FirstSamplePassesThrough ==
  [][FirstFiltered =>
       /\ smoothedGaze' = RawMapped
       /\ oneEuro'.x = RawMapped[1] /\ oneEuro'.y = RawMapped[2]
       /\ oneEuro'.dx = RZero /\ oneEuro'.dy = RZero
       /\ oneEuro'.t = now
       /\ liveGazeCursor' = <<RRound(RawMapped[1]), RRound(RawMapped[2])>>]_vars

\* C24 witness: the filter holds a first sample that is not at the origin
C24_Witness ==
  /\ oneEuro # NULL
  /\ oneEuro.dx = RZero /\ oneEuro.dy = RZero
  /\ oneEuro.t = now
  /\ smoothedGaze = <<oneEuro.x, oneEuro.y>>
  /\ oneEuro.x # RZero /\ oneEuro.y # RZero

\* fitCalibration was called with noise-free pairs of the known weights, at
\* 7 or more iris positions that determine a quadratic
KnownPairsFitted ==
  /\ lastFit # NULL
  /\ lastFit.n >= MinPairs
  /\ calibrationPairs = FitPairs("curved", lastFit.n, <<0, 0>>)

\* C25: fitting noise-free pairs generated from known quadratic weights
\* recovers the weights, and the fitted model with zero bias maps every
\* training iris position to its target
C25_FitRoundTrip ==
  KnownPairsFitted =>
    /\ lastFit.ran = "fitted"
    /\ calibData = KnownModel
    /\ \A i \in 1..Len(calibrationPairs) :
         IrisToScreen(RInt(calibrationPairs[i].iris[1]), RInt(calibrationPairs[i].iris[2]),
                      calibData, NoBias) = calibrationPairs[i].screen

\* C25 witness: the fit replaced an earlier, different model, and the targets
\* do not lie on a plane (the quadratic terms matter)
C25_Witness ==
  /\ KnownPairsFitted
  /\ lastFit.before # NULL /\ lastFit.before # KnownModel
  /\ lastFit.after = KnownModel
  /\ \E i \in 1..Len(calibrationPairs) :
       IrisToScreen(RInt(calibrationPairs[i].iris[1]), RInt(calibrationPairs[i].iris[2]),
                    lastFit.before, NoBias) # calibrationPairs[i].screen

\* fitCalibration was called with 7 or more pairs whose iris positions all
\* satisfy ix = iy
DiagonalPairsFitted ==
  /\ lastFit # NULL
  /\ lastFit.n >= MinPairs
  /\ calibrationPairs = FitPairs("diagonal", lastFit.n, <<0, 0>>)

\* C26: fitting 7 or more pairs that all have ix = iy returns a fit failure
\* (a value a successful fit does not return), yields no weight vector, and
\* leaves the model as it was
C26_DegenerateRejected ==
  DiagonalPairsFitted =>
    /\ lastFit.ran = "singular"
    /\ lastFit.after = lastFit.before
    /\ calibData = lastFit.before
    /\ lastFit.ret # ReturnOfSuccessfulFit

\* the constant input of the filter run
FilterTarget == <<RInt(memo.args[1]), RInt(memo.args[2])>>

\* how far the filter output is from the constant input, per axis
FilterError(st) ==
  <<RAbs(RSub(st.x, FilterTarget[1])), RAbs(RSub(st.y, FilterTarget[2]))>>

\* the filter has settled: the output is within 1/16 px of the input, the
\* velocity within 1 px/s of 0 and the cutoff within 0.16 of MIN_FC
FilterSettled ==
  /\ RLe(FilterError(oneEuro)[1], Rat(1, 16))
  /\ RLe(FilterError(oneEuro)[2], Rat(1, 16))
  /\ RLe(RAbs(oneEuro.dx), RInt(1)) /\ RLe(RAbs(oneEuro.dy), RInt(1))
  /\ RLe(MIN_FC, Cutoff(oneEuro.dx, oneEuro.dy))
  /\ RLe(Cutoff(oneEuro.dx, oneEuro.dy), RAdd(MIN_FC, RMul(BETA, RInt(2))))

\* C27: with a constant input at a fixed period the output never moves away
\* from the input and gets strictly closer while it is more than 1/16 px
\* away, on both axes; after MaxFilterSteps samples the output has reached
\* the input, the velocity has decayed to 0 and the cutoff to MIN_FC, up to
\* the resolution of the arithmetic
C27_FilterConverges ==
  /\ [][(oneEuro # NULL /\ oneEuro' # oneEuro) =>
          \A axis \in 1..2 :
            /\ RLe(FilterError(oneEuro')[axis], FilterError(oneEuro)[axis])
            /\ RLt(Rat(1, 16), FilterError(oneEuro)[axis]) =>
                 RLt(FilterError(oneEuro')[axis], FilterError(oneEuro)[axis])]_vars
  /\ [](now = MaxFilterSteps * memo.args[3] => FilterSettled)

\* C27 witness: a filter that started off the input has settled next to it,
\* at the resolution of the arithmetic
C27_Witness ==
  /\ oneEuro # NULL
  /\ FilterSettled
  /\ now > 0
  /\ liveGazeCursor = <<memo.args[1], memo.args[2]>>
  /\ oneEuro.x # FilterTarget[1]

\* no two stored sessions share an id
UniqueIds ==
  \A i, j \in 1..Len(storedSessions) :
    i # j => storedSessions[i].id # storedSessions[j].id

\* an import has just been handled
ImportStep == memo' # NULL /\ memo'.of = "import"

\* C28: importSessionsJSON merges and deduplicates by id: no two stored
\* sessions ever share an id, an import keeps every session that was stored
\* (as it was), and an import that is rejected leaves the store unchanged
C28_ImportDeduplicates ==
  /\ []UniqueIds
  /\ [][ImportStep => IsPrefix(storedSessions, storedSessions')]_vars
  /\ [][(ImportStep /\ memo'.out.rejected) => storedSessions' = storedSessions]_vars

\* fitCalibration was called with pairs of the known weights among which one
\* is far off, and enough pairs remain without it
OutlierPairsFitted ==
  /\ lastFit # NULL
  /\ lastFit.n > MinPairs
  /\ calibrationPairs = FitPairs("outlier", lastFit.n, <<0, 0>>)

\* the pairs that agree with the known weights
Inliers(pairs) ==
  SelectSeq(pairs, LAMBDA p : p.screen = IrisToScreen(RInt(p.iris[1]), RInt(p.iris[2]),
                                                      KnownModel, NoBias))

\* C29: the fit trims outliers in a second pass: with one pair far off among
\* pairs that agree with one model, the final model is the fit of the
\* agreeing pairs, not of all pairs
C29_OutliersTrimmed ==
  OutlierPairsFitted =>
    /\ Len(Inliers(calibrationPairs)) = lastFit.n - 1
    /\ calibData = FitCalibration(Inliers(calibrationPairs), lastFit.before).calib

\* handleStartSession ran (from Start Session, or from the timeout of Restart
\* Session) with the calibration done and a video loaded
CalibratedStart ==
  /\ calibrated /\ uploaded
  /\ phase = "idle"
  /\ timers' = timers + 1 /\ liveGazeUpdateTimer'

\* C30: a start after a completed calibration, with a video loaded, skips the
\* calibration: the phase becomes RECORDING, never CALIBRATING, and the
\* recording start time is set
C30_CalibratedStartRecords ==
  [][CalibratedStart =>
       /\ phase' = "recording"
       /\ recordingStart' # NULL]_vars

\* C31: whenever the session is marked calibrated or is recording, a
\* calibration model exists, so irisToScreen has a prediction; a calibration
\* whose fit produced no model never leads to the mark or to RECORDING
C31_CalibratedHasModel ==
  (calibrated \/ phase = "recording") => calibData # NULL

\* stopEyeTracker has just torn down a tracker that had a camera element
TrackerStopped == cameraVideo # "none" /\ cameraVideo' = "none"

\* C32: at most one detection loop is alive at any time, and when
\* stopEyeTracker has returned none is left
C32_SingleLoop ==
  /\ [](loops <= 1)
  /\ [][TrackerStopped => loops' = 0]_vars

\* a recording was stopped, by the Stop button or the video's ended event
\* (a new session, which discards the recording, leads to IDLE)
RecordingStopped == phase = "recording" /\ phase' \notin {"recording", "idle"}

\* C33: stopping a recording leads to REVIEW with the review data equal to
\* the full recorded sequence at that moment, and nothing that happens
\* while the phase stays REVIEW changes that data
C33_ReviewDataFrozen ==
  /\ [][RecordingStopped => phase' = "review" /\ liveGazeData' = liveGaze]_vars
  /\ [][(phase = "review" /\ phase' = "review") => liveGazeData' = liveGazeData]_vars

\* the screen positions of the configured waypoints
WaypointTargets == { ScreenOf(CanvasRect, WpFrac(i)) : i \in 0..(NumWaypoints - 1) }

OnPixelGrid(pt) == pt.x >= 0 /\ pt.x < VIDEO_W /\ pt.y >= 0 /\ pt.y < VIDEO_H

\* C35: every recorded gaze point has coordinates inside the frame,
\* 0 <= x < 640 and 0 <= y < 360, and the heatmap of a query window counts
\* exactly the points the region attention of the same window counts
C35_PointsInsideFrame ==
  /\ \A i \in 1..Len(liveGazeData) : OnPixelGrid(liveGazeData[i])
  /\ (memo # NULL /\ memo.of = "heatmap") =>
       memo.out.count =
         ComputeRegionAttention(memo.gazeData, memo.args[1], memo.args[2],
                                VIDEO_W, VIDEO_H, REGION_GRID).total

\* ReportPage has rendered a report of a recording that holds points
ReportRendered == memo # NULL /\ memo.of = "report-render" /\ memo.out.hotspot # <<>>

\* C36: in a rendered report the region shown as Hotspot has an attention
\* greater than or equal to that of every region, and no region left out of
\* Top Attention Regions has a greater attention than one listed there
C36_HotspotIsGreatest ==
  ReportRendered =>
    /\ \A i \in 1..Len(memo.out.regions) :
         RLe(memo.out.regions[i].attention, memo.out.hotspot[1].attention)
    /\ \A i \in 1..Len(memo.out.regions), j \in 1..Len(memo.out.top) :
         (\A k \in 1..Len(memo.out.top) : memo.out.top[k] # memo.out.regions[i])
           => RLe(memo.out.regions[i].attention, memo.out.top[j].attention)

\* a confirm click on the verification dot has been handled
ConfirmStep ==
  /\ phase = "calibrating" /\ etSubStatus = "verifying"
  /\ verifyStepRef' # verifyStepRef

\* C37: while Verifying the canvas rectangle is known, so no confirm is
\* dropped, and the target index never exceeds the number of targets; each
\* confirm advances the index by exactly one and records at most one residual,
\* none when fewer than 2 samples are buffered or no model exists; the bias
\* changes only on the confirm of the last target, and Verifying is left for
\* Ready on that confirm and on no other step
C37_VerificationPass ==
  /\ [](verifyStepRef <= Len(VERIFY_DOTS))
  /\ []((phase = "calibrating" /\ etSubStatus = "verifying") =>
          canvasRect # NULL /\ verifyStepRef < Len(VERIFY_DOTS))
  /\ [][ConfirmStep =>
          /\ verifyStepRef' = verifyStepRef + 1
          /\ \/ verifyResiduals' = verifyResiduals
             \/ /\ Len(verifyResiduals') = Len(verifyResiduals) + 1
                /\ SubSeq(verifyResiduals', 1, Len(verifyResiduals)) = verifyResiduals
          /\ (Len(irisBuffer) < VERIFY_MIN_SAMPLES \/ calibData = NULL)
               => verifyResiduals' = verifyResiduals
          /\ (etSubStatus' = "ready") <=> (verifyStepRef' = Len(VERIFY_DOTS))
          /\ etSubStatus' \in {"verifying", "ready"}
          /\ (bias' # bias) => (verifyStepRef' = Len(VERIFY_DOTS))]_vars
  /\ [][(etSubStatus = "verifying" /\ etSubStatus' = "ready") => ConfirmStep]_vars
  /\ [][(etSubStatus = "verifying" /\ bias' # bias) => ConfirmStep]_vars

\* C37 witness: the confirm of the last target has ended a pass in which
\* residuals were recorded and the bias was applied
C37_Witness ==
  /\ phase = "calibrating" /\ etSubStatus = "ready"
  /\ verifyStepRef = Len(VERIFY_DOTS)
  /\ Len(verifyResiduals) > 0
  /\ bias # NoBias

\* C38: at most one live-gaze snapshot interval is active at any time, and
\* none is active while the phase is IDLE or REVIEW
C38_SingleSnapshotTimer ==
  /\ timers <= 1
  /\ phase \in {"idle", "review"} => timers = 0

\* the weights of one axis solved from the pairs accumulated so far
SolvedFromPairs(axis) ==
  SolveLinearN(NormalMatrix(calibrationPairs), NormalRhs(calibrationPairs, axis))

\* C39: the model is absent or holds a full weight vector for each axis;
\* whenever it changes it becomes absent (reset, teardown) or the pair of
\* weight vectors both solved from the pairs the fit call was given, never
\* one new vector next to an old one; and a fit call that does not solve both
\* axes leaves the model as it was
C39_ModelReplacedWholesale ==
  /\ [](calibData # NULL =>
          /\ DOMAIN calibData = {"wx", "wy"}
          /\ calibData.wx # NULL /\ Len(calibData.wx) = NTerms
          /\ calibData.wy # NULL /\ Len(calibData.wy) = NTerms)
  /\ [][(calibData' # calibData /\ calibData' # NULL) =>
          /\ Len(calibrationPairs) >= MinPairs
          /\ calibData'.wx = SolvedFromPairs(1)
          /\ calibData'.wy = SolvedFromPairs(2)]_vars
  /\ [][(lastFit' # lastFit /\ lastFit' # NULL /\ lastFit'.ran # "fitted") =>
          calibData' = calibData]_vars

\* C39 witness: a fit has replaced an earlier model, and both weight vectors
\* of the model in place differ from those of the model it replaced
C39_Witness ==
  /\ lastFit # NULL /\ lastFit.ran = "fitted"
  /\ lastFit.before # NULL
  /\ calibData = lastFit.after
  /\ calibData.wx # lastFit.before.wx
  /\ calibData.wy # lastFit.before.wy

====
